---- MODULE Spec2Model ----
(***************************************************************************)
(* Lead/lag market-graph pipeline (src/src/app.py) and the signal          *)
(* evaluator that consumes its history file (src/src/signals.py).          *)
(*                                                                         *)
(* Numeric conventions of the model:                                       *)
(*  - prices and volumes are small integers, the float64 of which the      *)
(*    program computes with;                                               *)
(*  - a Pearson correlation is the float64 that Series.corr returns,       *)
(*    computed operation by operation in IEEE-754 binary64 arithmetic;     *)
(*    the undefined correlation (pandas NaN) is the record NaN;            *)
(*  - the fields of a snapshot row that the signal rules read are          *)
(*    fixed-point integers in units of 1/10000 (the history file keeps     *)
(*    at most four decimals).                                              *)
(***************************************************************************)
EXTENDS Integers, Sequences, FiniteSets, TLC

VARIABLES
    pc,            \* position of the run that is modelled
    df,            \* calculate_correlations: the aligned price table
    correlations,  \* calculate_correlations: the relationship candidates
    best,          \* the (lag, corr) pairs the two lag searches ended with
    results,       \* get_leaders_analytics: rows returned by the graph query
    leaders_df,    \* get_leaders_analytics: the snapshot rows built from them
    df_history,    \* signals.handler: the rows read from the leaders history
    signals_df,    \* signals.handler: the records process_signals returned
    signals_csv,   \* the stored trading_signals.csv
    response,      \* statusCode a handler returned, 0 while it runs, 500 if it raised
    metadata,      \* app.handler: the per-coin metrics get_binance_data returned
    graph,         \* the graph store: coin vertices and 'leads' edges
    unique_coins,  \* update_neptune: coins whose vertex is still to be upserted
    rel_index,     \* update_neptune: position in `relationships` of the edge loop
    leaders_csv,   \* the stored market_leaders_history.csv
    s3_read,       \* update_csv_in_s3: how the read of the stored history ended
    cycle,         \* number of the handler run, the clock of its timestamps
    writers,       \* overlapping runs: the state of update_neptune in each run
    exclusive,     \* overlapping runs: whether the runs are kept from overlapping
    combined_df,   \* update_signals_csv: the frame built from the object read
    other_run,     \* a second run of signals.handler that overlaps the first
    history_df,    \* update_csv_in_s3: the frame built from the history read
    other_csv,     \* a second run of app.handler that overlaps the first in
                   \* update_csv_in_s3
    fused_dot      \* the build: numpy's dot fuses each product with the sum

pipelineVars == <<metadata, graph, unique_coins, rel_index, leaders_csv, s3_read, cycle>>

writerVars == <<writers, exclusive>>

overlapVars == <<combined_df, other_run, history_df, other_csv>>

vars == <<pc, df, correlations, best, results, leaders_df,
          df_history, signals_df, signals_csv, response, pipelineVars, writerVars,
          overlapVars, fused_dot>>

\*--------------------------------------------------------------------------
\* Integer helpers
\*--------------------------------------------------------------------------

Abs(x) == IF x < 0 THEN 0 - x ELSE x

Min(x, y) == IF x < y THEN x ELSE y

Max(x, y) == IF x < y THEN y ELSE x

\*--------------------------------------------------------------------------
\* IEEE-754 binary64 arithmetic, round to nearest, ties to even: the
\* arithmetic of the Python floats and numpy float64 of the program.
\* A double is [s, m, e]: its sign s (1, -1, 0 for zero, 2 for NaN) and its
\* value s * M * 2^e with 2^52 <= M < 2^53, M being held in m as four limbs
\* of 14 bits, the lowest first. Intermediate integers are held in eight
\* limbs. No value of the program comes near the overflow or the subnormal
\* range, and none is an infinity.
\*--------------------------------------------------------------------------

LIMB == 16384

LIMB_BITS == 14

MANT_BITS == 53

PowersOfTwo == <<1, 2, 4, 8, 16, 32, 64, 128, 256, 512, 1024, 2048, 4096, 8192, 16384>>

Pow2(b) == PowersOfTwo[b + 1]

NoLimbs == <<0, 0, 0, 0>>

NaN == [s |-> 2, m |-> NoLimbs, e |-> 0]

Zero == [s |-> 0, m |-> NoLimbs, e |-> 0]

IsNaN(c) == c.s = 2

\* a number of four limbs in eight, and back
Wide(m) == <<m[1], m[2], m[3], m[4], 0, 0, 0, 0>>

Narrow(N) == <<N[1], N[2], N[3], N[4]>>

WideZero == <<0, 0, 0, 0, 0, 0, 0, 0>>

WideOne == <<1, 0, 0, 0, 0, 0, 0, 0>>

\* The eight limbs of the number whose limbs, before the carries are passed
\* on, are the columns c; a column may be 2^14 or more, or negative.
Carry(c) ==
    LET t1 == c[1]
        t2 == c[2] + (t1 \div LIMB)
        t3 == c[3] + (t2 \div LIMB)
        t4 == c[4] + (t3 \div LIMB)
        t5 == c[5] + (t4 \div LIMB)
        t6 == c[6] + (t5 \div LIMB)
        t7 == c[7] + (t6 \div LIMB)
        t8 == c[8] + (t7 \div LIMB)
    IN  <<t1 % LIMB, t2 % LIMB, t3 % LIMB, t4 % LIMB, t5 % LIMB, t6 % LIMB, t7 % LIMB,
          t8 % LIMB>>

\* N1 + sign * N2
AddSigned(N1, sign, N2) == Carry([i \in 1..8 |-> N1[i] + sign * N2[i]])

Add(N1, N2) == AddSigned(N1, 1, N2)

\* N1 - N2
Sub(N1, N2) == AddSigned(N1, 0 - 1, N2)

\* N * d for a limb d
MulLimb(N, d) == Carry([i \in 1..8 |-> N[i] * d])

\* the product of two numbers of four limbs
Mul(a, b) ==
    Carry(<<a[1] * b[1],
            a[1] * b[2] + a[2] * b[1],
            a[1] * b[3] + a[2] * b[2] + a[3] * b[1],
            a[1] * b[4] + a[2] * b[3] + a[3] * b[2] + a[4] * b[1],
            a[2] * b[4] + a[3] * b[3] + a[4] * b[2],
            a[3] * b[4] + a[4] * b[3],
            a[4] * b[4],
            0>>)

\* A difference below zero comes out of Carry as 2^112 more: its last limb
\* is then in the upper half, where the last limb of no number used here is.
Negative(N) == N[8] >= LIMB \div 2

Less(N1, N2) == Negative(Sub(N1, N2))

\* the index of the last nonzero limb of N, 0 when N = 0
TopLimb(N) ==
    IF N[8] # 0 THEN 8 ELSE IF N[7] # 0 THEN 7 ELSE IF N[6] # 0 THEN 6
    ELSE IF N[5] # 0 THEN 5 ELSE IF N[4] # 0 THEN 4 ELSE IF N[3] # 0 THEN 3
    ELSE IF N[2] # 0 THEN 2 ELSE IF N[1] # 0 THEN 1 ELSE 0

\* the bits of a limb v
BitsOfLimb(v) == CHOOSE L \in 0..LIMB_BITS : v < Pow2(L) /\ (L = 0 \/ Pow2(L - 1) <= v)

\* the bits of N
BitLenTo(N, t) == IF t = 0 THEN 0 ELSE LIMB_BITS * (t - 1) + BitsOfLimb(N[t])

BitLen(N) == BitLenTo(N, TopLimb(N))

\* the sequence f as a tuple, each element computed once
AsTuple(f) == f \o <<>>

\* limb j of N, 0 outside the eight limbs
Limb(N, j) == IF 1 <= j /\ j <= 8 THEN N[j] ELSE 0

\* the bits of lo from bit b on, below the b lowest bits of hi
Spliced(lo, hi, b) == (lo \div Pow2(b)) + (hi % Pow2(b)) * Pow2(LIMB_BITS - b)

\* floor(N / 2^k)
ShiftRight(N, k) ==
    AsTuple([j \in 1..8 |-> Spliced(Limb(N, j + (k \div LIMB_BITS)),
                                    Limb(N, j + (k \div LIMB_BITS) + 1), k % LIMB_BITS)])

\* N * 2^k, which the eight limbs must hold
ShiftLeft(N, k) ==
    AsTuple([j \in 1..8 |-> Spliced(Limb(N, j - (k \div LIMB_BITS) - 1),
                                    Limb(N, j - (k \div LIMB_BITS)),
                                    LIMB_BITS - (k % LIMB_BITS))])

\* bit k of N, bit 0 being the lowest
Bit(N, k) == (N[(k \div LIMB_BITS) + 1] \div Pow2(k % LIMB_BITS)) % 2

\* some bit of N below bit k is set
LowBits(N, k) ==
    \/ \E i \in 1..(k \div LIMB_BITS) : N[i] # 0
    \/ N[(k \div LIMB_BITS) + 1] % Pow2(k % LIMB_BITS) # 0

\* the double s * M * 2^e of a mantissa M of 53 bits or, the rounding having
\* carried out of them, of 2^53
Mantissa(s, M, e) ==
    IF M[4] >= Pow2(MANT_BITS - 3 * LIMB_BITS)
    THEN [s |-> s, m |-> <<0, 0, 0, Pow2(MANT_BITS - 3 * LIMB_BITS - 1)>>, e |-> e + 1]
    ELSE [s |-> s, m |-> Narrow(M), e |-> e]

\* M, the bits of N from bit k on, is rounded up: the k bits cut off, with
\* what `sticky` stands for, are above a half, or are a half and M is odd
RoundsUp(N, k, M, sticky) ==
    Bit(N, k - 1) = 1 /\ (sticky \/ LowBits(N, k - 1) \/ M[1] % 2 = 1)

\* N cut to its bits M from bit k on, rounded
CutTo(s, N, e, sticky, k, M) ==
    Mantissa(s, IF RoundsUp(N, k, M, sticky) THEN Add(M, WideOne) ELSE M, e + k)

\* Round for N of len bits
RoundBits(s, N, e, sticky, len) ==
    IF len = 0 THEN Zero
    ELSE IF len <= MANT_BITS
    THEN [s |-> s, m |-> Narrow(ShiftLeft(N, MANT_BITS - len)), e |-> e - (MANT_BITS - len)]
    ELSE CutTo(s, N, e, sticky, len - MANT_BITS, ShiftRight(N, len - MANT_BITS))

\* The double nearest to s * (N + f) * 2^e, where 0 <= f < 1 and f > 0
\* exactly when `sticky`: N is cut to 53 bits and rounded on the bits cut
\* off, a tie going to the even mantissa.
Round(s, N, e, sticky) == RoundBits(s, N, e, sticky, BitLen(N))

\* the double of an integer of at most 28 bits
FromInt(k) ==
    Round(IF k < 0 THEN 0 - 1 ELSE 1, <<Abs(k) % LIMB, Abs(k) \div LIMB, 0, 0, 0, 0, 0, 0>>, 0,
          FALSE)

One == FromInt(1)

FloatNeg(x) == IF x.s = 2 THEN x ELSE [x EXCEPT !.s = 0 - x.s]

\* |x| < |y| for doubles that are not NaN
AbsLess(x, y) ==
    IF y.s = 0 THEN FALSE
    ELSE IF x.s = 0 THEN TRUE
    ELSE IF x.e # y.e THEN x.e < y.e
    ELSE Less(Wide(x.m), Wide(y.m))

\* x < y for doubles that are not NaN
FloatLess(x, y) ==
    IF x.s # y.s THEN x.s < y.s
    ELSE IF x.s = 0 THEN FALSE
    ELSE IF x.s = 1 THEN AbsLess(x, y)
    ELSE AbsLess(y, x)

\* big + small for |big| >= |small|, neither being zero or NaN: big, moved
\* sh binary places up, plus or minus small, or a unit when small is further
\* below
AddShifted(big, small, sh) ==
    Round(big.s,
          AddSigned(ShiftLeft(Wide(big.m), sh), big.s * small.s,
                    IF sh < big.e - small.e THEN WideOne ELSE Wide(small.m)),
          big.e - sh, FALSE)

AddAligned(big, small) == AddShifted(big, small, Min(big.e - small.e, MANT_BITS + 3))

AddOrdered(x, y, swap) == AddAligned(IF swap THEN y ELSE x, IF swap THEN x ELSE y)

\* x + y: the exact sum, rounded. An operand more than 56 binary places
\* below the other one only makes the sum inexact.
FloatAdd(x, y) ==
    IF x.s = 2 \/ y.s = 2 THEN NaN
    ELSE IF x.s = 0 THEN y
    ELSE IF y.s = 0 THEN x
    ELSE AddOrdered(x, y, AbsLess(x, y))

FloatSub(x, y) == FloatAdd(x, FloatNeg(y))

\* x * y: the exact product, rounded
FloatMul(x, y) ==
    IF x.s = 2 \/ y.s = 2 THEN NaN
    ELSE IF x.s = 0 \/ y.s = 0 THEN Zero
    ELSE Round(x.s * y.s, Mul(x.m, y.m), x.e + y.e, FALSE)

\* the bits in which the operands of a fused multiply-add are lined up
FMA_BITS == 110

\* bs * B + ss * (T + f), rounded, for numbers B and T below 2^110 and a
\* fraction f that is above 0 exactly when `sticky`, T being far below B then
FmaMerge(bs, B, ss, T, sticky, e) ==
    IF bs = ss THEN Round(bs, Add(B, T), e, sticky)
    ELSE IF Less(B, T) THEN Round(ss, Sub(T, B), e, FALSE)
    ELSE Round(bs, AddSigned(Sub(B, T), IF sticky THEN 0 - 1 ELSE 0, WideOne), e, sticky)

\* bs * B * 2^e + ss * S * 2^(e + k), rounded: S is moved k binary places
\* up, or down when k is negative, the bits that fall off being kept as one
FmaAlign(bs, B, ss, S, k, e) ==
    FmaMerge(bs, B, ss, IF k >= 0 THEN ShiftLeft(S, k) ELSE ShiftRight(S, 0 - k),
             k < 0 /\ (0 - k >= 8 * LIMB_BITS \/ LowBits(S, 0 - k)), e)

\* s * P * 2^pe + z, rounded, for a product P of len bits: the operand whose
\* first bit is the higher one is moved up to FMA_BITS bits and the other
\* one lined up with it
FmaFramed(s, P, pe, len, z) ==
    IF pe + len >= z.e + MANT_BITS
    THEN FmaAlign(s, ShiftLeft(P, FMA_BITS - len), z.s, Wide(z.m),
                  z.e - (pe - (FMA_BITS - len)), pe - (FMA_BITS - len))
    ELSE FmaAlign(z.s, ShiftLeft(Wide(z.m), FMA_BITS - MANT_BITS), s, P,
                  pe - (z.e - (FMA_BITS - MANT_BITS)), z.e - (FMA_BITS - MANT_BITS))

FmaProduct(s, P, pe, z) == FmaFramed(s, P, pe, BitLen(P), z)

\* fma(x, y, z): the exact x * y + z, rounded once
FloatFma(x, y, z) ==
    IF x.s = 2 \/ y.s = 2 \/ z.s = 2 THEN NaN
    ELSE IF x.s = 0 \/ y.s = 0 THEN z
    ELSE IF z.s = 0 THEN FloatMul(x, y)
    ELSE FmaProduct(x.s * y.s, Mul(x.m, y.m), x.e + y.e, z)

\* One digit of a long division by D: the digit q and the remainder r, from
\* a trial digit q that is not below it and r = R * 2^14 - D * q.
RECURSIVE DivDigit(_, _, _)
DivDigit(r, D, q) ==
    IF Negative(r) THEN DivDigit(Add(r, D), D, q - 1) ELSE [q |-> q, r |-> r]

\* R * 2^14 - D * q
DivRest(R, D, q) == Carry([i \in 1..8 |-> Limb(R, i - 1) - D[i] * q])

\* The next digit of the long division of R by D, 2^52 <= D < 2^53 and
\* R < D, and the remainder it leaves: the trial digit is the quotient of the
\* first bits of R, rounded up, by Dh, the first 15 bits of D.
DivTrial(R, D, q) == DivDigit(DivRest(R, D, q), D, q)

DivStep(R, D, Dh) ==
    DivTrial(R, D, Min(LIMB - 1,
                       ((R[2] \div Pow2(10)) + R[3] * Pow2(4) + R[4] * Pow2(4) * LIMB + 1)
                          \div Dh))

\* The digits qs found so far, the lowest first, and the remainder they
\* leave, with the next digit of the division by D.
DivNext(qs, s) == [q |-> <<s.q>> \o qs.q, r |-> s.r]

\* n digits more
RECURSIVE DivDigits(_, _, _, _)
DivDigits(qs, D, Dh, n) ==
    IF n = 0 THEN [q |-> qs.q \o <<0, 0, 0>>, inexact |-> qs.r # WideZero]
    ELSE DivDigits(DivNext(qs, DivStep(qs.r, D, Dh)), D, Dh, n - 1)

\* the division of A by D, r0 being A - D
DivFirst(A, D, r0) ==
    DivDigits(IF Negative(r0) THEN [q |-> <<0>>, r |-> A] ELSE [q |-> <<1>>, r |-> r0], D,
              (D[3] \div Pow2(10)) + D[4] * Pow2(4), 4)

\* floor(A * 2^56 / D) and whether the division is inexact, for A and D of
\* 53 bits: the first digit is 0 or 1, four digits of 14 bits follow.
LongDiv(A, D) == DivFirst(A, D, Sub(A, D))

RoundQuotient(s, d, e) == Round(s, d.q, e, d.inexact)

\* x / y for y # 0: the quotient to 57 bits and a sticky bit, rounded
FloatDiv(x, y) ==
    IF x.s = 2 \/ y.s = 2 \/ y.s = 0 THEN NaN
    ELSE IF x.s = 0 THEN Zero
    ELSE RoundQuotient(x.s * y.s, LongDiv(Wide(x.m), Wide(y.m)), x.e - y.e - 4 * LIMB_BITS)

\* the double nearest to num / den, which is what the literal or the division
\* of the two integers gives
DoubleOf(num, den) == FloatDiv(FromInt(num), FromInt(den))

\* floor(N / d) for N below 2^70 and d of at most 15 bits
ShortDiv(N, d) ==
    LET t5 == N[5]
        t4 == (t5 % d) * LIMB + N[4]
        t3 == (t4 % d) * LIMB + N[3]
        t2 == (t3 % d) * LIMB + N[2]
        t1 == (t2 % d) * LIMB + N[1]
    IN  <<t1 \div d, t2 \div d, t3 \div d, t4 \div d, t5 \div d, 0, 0, 0>>

\* N, a number of len bits, to 53 bits
Leading(N, len) ==
    IF len >= MANT_BITS THEN ShiftRight(N, len - MANT_BITS) ELSE ShiftLeft(N, MANT_BITS - len)

\* NewtonStep for S of lenS bits
NewtonQuotient(N, len, S, lenS) ==
    ShiftRight(Add(S, ShiftRight(LongDiv(ShiftRight(N, len - MANT_BITS), Leading(S, lenS)).q,
                                 4 * LIMB_BITS + lenS - len)), 1)

\* One step of Newton's iteration for the square root of N, a number of len
\* bits, from the approximation S: about (S + N / S) / 2.
NewtonStep(N, len, S) == NewtonQuotient(N, len, S, BitLen(S))

\* The largest R with R * R <= N and the rest N - R * R, from an
\* approximation S: (S + 1)^2 <= N when the rest of S is above 2 S.
RECURSIVE SqrtRest(_, _), SqrtStep(_, _, _)
SqrtRest(N, S) == SqrtStep(N, S, Sub(N, Mul(S, S)))

\* SqrtRest for S of the rest N - S * S
SqrtStep(N, S, rest) ==
    IF Negative(rest) THEN SqrtRest(N, Sub(S, WideOne))
    ELSE IF Less(ShiftLeft(S, 1), rest) THEN SqrtRest(N, Add(S, WideOne))
    ELSE [root |-> S, rest |-> rest]

\* IntSqrt from s0, the root of the first 28 bits
SqrtFrom(N, s0) ==
    SqrtRest(N, NewtonStep(N, BitLen(N),
                           ShiftRight(Add(ShiftLeft(<<s0 % LIMB, s0 \div LIMB, 0, 0, 0, 0, 0, 0>>,
                                                    3 * LIMB_BITS - 3),
                                          ShortDiv(ShiftRight(N, 3 * LIMB_BITS - 3), s0)), 1)))

\* IntSqrt from r0, the root of the first 14 bits, t being the first 28 bits
SqrtFromRoot(N, t, r0) == SqrtFrom(N, (r0 * 128 + (t \div (r0 * 128))) \div 2)

\* IntSqrt for N of the first 28 bits top
SqrtOfTop(N, top) ==
    SqrtFromRoot(N, top[1] + top[2] * LIMB,
                 CHOOSE r \in 64..127 : r * r <= top[2] /\ top[2] < (r + 1) * (r + 1))

\* floor(sqrt(N)) and the rest, for N of 105 or 106 bits: the root r0 of the
\* first 14 bits or so, three steps of Newton's iteration, the first one on
\* the first 28 bits t and the second one dividing by a limb, and the last
\* unit set right.
IntSqrt(N) == SqrtOfTop(N, ShiftRight(N, 6 * LIMB_BITS - 6))

\* the double of the root R.root of a mantissa, R.rest being left, with the
\* exponent e
RootToDouble(R, e) ==
    IF R.rest = WideZero THEN [s |-> 1, m |-> Narrow(R.root), e |-> e]
    ELSE Round(1, Add(ShiftLeft(R.root, 1), IF Less(R.root, R.rest) THEN WideOne ELSE WideZero),
               e - 1, TRUE)

\* FloatSqrt of the mantissa moved k binary places up, which makes the
\* exponent even
SqrtShifted(x, k) == RootToDouble(IntSqrt(ShiftLeft(Wide(x.m), k)), (x.e - k) \div 2)

\* sqrt(x): the root of the mantissa to 53 bits, which is the result when
\* nothing is left; else one bit more, which says whether what is left is
\* above a half, and a sticky bit, rounded. What is left is never a half.
FloatSqrt(x) ==
    IF x.s = 2 \/ x.s < 0 THEN NaN
    ELSE IF x.s = 0 THEN Zero
    ELSE SqrtShifted(x, IF x.e % 2 = 0 THEN MANT_BITS - 1 ELSE MANT_BITS)

RECURSIVE SumOver(_, _, _)
SumOver(f, lo, hi) == IF lo > hi THEN 0 ELSE f[lo] + SumOver(f, lo + 1, hi)

\* astype(float): the float64 of each integer of a column
Floats(xs) == AsTuple([t \in 1..Len(xs) |-> FromInt(xs[t])])

\* acc + xs[k] + xs[k + 1] + ..., each sum rounded
RECURSIVE SumFrom(_, _, _)
SumFrom(xs, k, acc) == IF k > Len(xs) THEN acc ELSE SumFrom(xs, k + 1, FloatAdd(acc, xs[k]))

\* acc + xs[i] + xs[i + 8] + ... up to xs[last]
RECURSIVE Lane(_, _, _, _)
Lane(xs, i, last, acc) ==
    IF i > last THEN acc ELSE Lane(xs, i + 8, last, FloatAdd(acc, xs[i]))

\* the eight sums r of numpy's pairwise sum, added two by two
LaneTree(r) ==
    FloatAdd(FloatAdd(FloatAdd(r[1], r[2]), FloatAdd(r[3], r[4])),
             FloatAdd(FloatAdd(r[5], r[6]), FloatAdd(r[7], r[8])))

\* numpy.add.reduce of up to 128 float64: below eight they are added one
\* after the other; from eight on, element i of each block of eight is added
\* to the i-th of eight sums, these are added two by two, and the elements
\* after the last whole block are added to the result one after the other.
PairwiseSum(xs) ==
    IF Len(xs) < 8 THEN SumFrom(xs, 1, Zero)
    ELSE SumFrom(xs, Len(xs) - (Len(xs) % 8) + 1,
                 LaneTree(AsTuple([j \in 1..8 |->
                                     Lane(xs, j + 8, Len(xs) - (Len(xs) % 8), xs[j])])))

\* numpy.mean of a float64 column: the sum divided by the count; NaN for no
\* rows.
Mean(xs) == FloatDiv(PairwiseSum(xs), FromInt(Len(xs)))

Centred(xs, avg) ==
    IF IsNaN(avg) THEN <<>>
    ELSE AsTuple([t \in 1..Len(xs) |-> FloatSub(xs[t], avg)])

\* X -= avg (numpy.cov)
Demeaned(xs) == Centred(xs, Mean(xs))

\* dot(X, X.T): the products summed one after the other from the k-th on, acc
\* being the sum before them. The BLAS that numpy is built on decides how a
\* product is added: rounded and then added, the sum being rounded again, or
\* fused with the addition (fma) and rounded once.
RECURSIVE Dot(_, _, _, _, _)
Dot(dx, dy, k, acc, fused) ==
    IF k > Len(dx) \/ IsNaN(acc) THEN acc
    ELSE Dot(dx, dy, k + 1,
             IF fused THEN FloatFma(dx[k], dy[k], acc)
             ELSE FloatAdd(acc, FloatMul(dx[k], dy[k])),
             fused)

\* numpy.clip(c, -1, 1)
Clip(c) == IF IsNaN(c) THEN c ELSE IF AbsLess(One, c) THEN [One EXCEPT !.s = c.s] ELSE c

\* c[0, 0], c[1, 1] and c[0, 1] of the matrix c = dot(X, X.T) * inv, X being
\* the two demeaned columns
Covariances(X, inv, fused) ==
    AsTuple([k \in 1..3 |->
               FloatMul(Dot(X[IF k = 3 THEN 1 ELSE k], X[IF k = 3 THEN 2 ELSE k], 1, Zero,
                            fused),
                        inv)])

\* sqrt(c[0, 0]) and sqrt(c[1, 1]) for the three entries c of Covariances
Deviations(c) == AsTuple([i \in 1..2 |-> FloatSqrt(c[i])])

\* c[0, 1] / d[0] / d[1], clipped; 0 / 0 is NaN
Divided(c, d) ==
    IF d[1] = Zero \/ d[2] = Zero THEN NaN ELSE Clip(FloatDiv(FloatDiv(c[3], d[1]), d[2]))

Normalised(c) == Divided(c, Deviations(c))

\* numpy.corrcoef(xs, ys)[0, 1] of two float64 columns, as pandas nancorr
\* calls it: the covariance matrix c = dot(X, X.T) * (1 / (n - 1)) of the
\* demeaned columns, then c[0, 1] / sqrt(c[0, 0]) / sqrt(c[1, 1]), clipped to
\* [-1, 1]. A column whose deviations are all 0 gives 0 / 0, which is NaN.
corrcoef(xs, ys, fused) ==
    IF Len(xs) < 2 THEN NaN
    ELSE Normalised(Covariances(AsTuple([i \in 1..2 |-> Demeaned(<<xs, ys>>[i])]),
                                DoubleOf(1, Len(xs) - 1), fused))

\* x.corr(y.shift(-lag)) of two float64 columns: row t of the shifted column
\* holds y[t + lag], rows whose source falls outside the table hold NaN and
\* are dropped pairwise.
ShiftedCorr(x, y, lag, fused) ==
    LET lo == Max(1, 1 - lag)
        hi == Min(Len(x), Len(y) - lag)
    IN  IF hi - lo + 1 < 2 THEN NaN
        ELSE corrcoef(SubSeq(x, lo, hi), SubSeq(y, lo + lag, hi + lag), fused)

\* abs(c1) > abs(c2) on defined correlations (app.py 107).
AbsGreater(c1, c2) == AbsLess(c2, c1)



\*--------------------------------------------------------------------------
\* Lag-correlation engine: calculate_correlations (app.py 83-119) and
\* best_lag_minutes (lambda_function.py 56-66)
\*--------------------------------------------------------------------------

\* app.py 98: range(-15, 16)
MAX_LAG == 15

\* lambda_function.py 56: max_lag=60
DEFAULT_MAX_LAG == 60

\* app.py 86: THRESHOLD = 0.70, in hundredths
THRESHOLD_PCT == 70

\* app.py 86: the float64 of the literal 0.70
THRESHOLD == DoubleOf(THRESHOLD_PCT, 100)

\* ExceedsThreshold without the abs().
ExceedsThresholdSigned(c) == FloatLess(THRESHOLD, c)

\* app.py 112: abs(best_corr) > THRESHOLD. The running best is never NaN.
ExceedsThreshold(c) == AbsLess(THRESHOLD, c)

\* The passes of a loop over lo..hi in ascending order that get past the
\* `continue`s of app.py 99 and 106: each with its lag and the correlation
\* computed at app.py 103-104. `direction` is -1 for shift(-lag) and 1 for
\* shift(lag); lag 0 is skipped when `skip_zero`.
Passes(x, y, lo, hi, direction, skip_zero, fused) ==
    LET all == [k \in 1..(hi - lo + 1) |->
                  [lag  |-> lo + k - 1,
                   corr |-> ShiftedCorr(x, y, (0 - direction) * (lo + k - 1), fused)]]
        Runs(pass) == ~IsNaN(pass.corr) /\ ~(skip_zero /\ pass.lag = 0)
    IN  SelectSeq(all, Runs)

\* LagSweep comparing the signed values, as `corr > best_corr` would.
RECURSIVE LagSweepSigned(_, _, _)
LagSweepSigned(passes, k, acc) ==
    IF k > Len(passes) THEN acc
    ELSE IF FloatLess(acc.corr, passes[k].corr)
    THEN LagSweepSigned(passes, k + 1, passes[k])
    ELSE LagSweepSigned(passes, k + 1, acc)

\* LagSweep keeping the first correlation that beats the initial 0.
RECURSIVE LagSweepFirst(_, _, _)
LagSweepFirst(passes, k, acc) ==
    IF k > Len(passes) THEN acc
    ELSE IF acc.lag = 0 /\ AbsGreater(passes[k].corr, acc.corr)
    THEN LagSweepFirst(passes, k + 1, passes[k])
    ELSE LagSweepFirst(passes, k + 1, acc)

\* app.py 107-109 over the passes from the k-th on, with
\* (best_lag, best_corr) = acc before them.
RECURSIVE LagSweep(_, _, _)
LagSweep(passes, k, acc) ==
    IF k > Len(passes) THEN acc
    ELSE IF AbsGreater(passes[k].corr, acc.corr)
    THEN LagSweep(passes, k + 1, passes[k])
    ELSE LagSweep(passes, k + 1, acc)

\* app.py 94-109 on two float64 columns: best_corr = 0, best_lag = 0, then
\* the loop over range(-15, 16).
BestLag(x, y, fused) ==
    LagSweep(Passes(x, y, 0 - MAX_LAG, MAX_LAG, 0 - 1, TRUE, fused), 1,
             [lag |-> 0, corr |-> Zero])

\* lambda_function.py 62-63 over the passes from the k-th on, with best = acc
\* before them.
RECURSIVE MinutesSweep(_, _, _)
MinutesSweep(passes, k, acc) ==
    IF k > Len(passes) THEN acc
    ELSE IF IsNaN(acc.corr) \/ AbsGreater(passes[k].corr, acc.corr)
    THEN MinutesSweep(passes, k + 1, passes[k])
    ELSE MinutesSweep(passes, k + 1, acc)

\* lambda_function.py 56-66 on two float64 columns of returns: best =
\* (0, nan), then the loop over range(-max_lag, max_lag + 1) with y_ret
\* shifted by +lag.
best_lag_minutes(x_ret, y_ret, max_lag, fused) ==
    MinutesSweep(Passes(x_ret, y_ret, 0 - max_lag, max_lag, 1, FALSE, fused), 1,
                 [lag |-> 0, corr |-> NaN])

\* lambda_function.py 88: pct_change().dropna(how="all") of a float64 column
\* of prices, p[t] / p[t - 1] - 1 for every row but the first, which has no
\* row before it and is dropped.
pct_change(prices) ==
    AsTuple([t \in 1..(Len(prices) - 1) |->
               FloatSub(FloatDiv(prices[t + 1], prices[t]), One)])

\* lambda_function.py 87-88: the returns of every column of the price table
Returns(table) ==
    [c \in { table.columns[k] : k \in 1..Len(table.columns) } |->
       pct_change(Floats(table.close[c]))]

\* lambda_function.py 105-106: the pairs of columns i < j.
UpperPairs(columns) ==
    { <<columns[ij[1]], columns[ij[2]]>> :
        ij \in { kl \in (1..Len(columns)) \X (1..Len(columns)) : kl[1] < kl[2] } }

\* lambda_function.py 105-109: best_lag_minutes(ret[a], ret[b]) for the
\* pairs of columns i < j of the returns ret
BestMinutes(columns, ret, fused) ==
    [pr \in UpperPairs(columns) |->
       best_lag_minutes(ret[pr[1]], ret[pr[2]], DEFAULT_MAX_LAG, fused)]

\* The ordered pairs of distinct columns in the order of the two nested loops
\* (app.py 90-92).
OrderedPairs(columns) ==
    LET n   == Len(columns)
        all == [k \in 1..(n * n) |->
                  <<columns[((k - 1) \div n) + 1], columns[((k - 1) % n) + 1]>>]
        Distinct(pr) == pr[1] # pr[2]
    IN  SelectSeq(all, Distinct)

\* app.py 94-109 for every ordered pair: the (best_lag, best_corr) the sweep
\* of each pair ends with.
BestLags(table, fused) ==
    LET pairs  == OrderedPairs(table.columns)
        sweeps == AsTuple([k \in 1..Len(pairs) |->
                             BestLag(Floats(table.close[pairs[k][1]]),
                                     Floats(table.close[pairs[k][2]]), fused)])
        Pass(pr) == CHOOSE k \in 1..Len(pairs) : pairs[k] = pr
    IN  [pr \in { pairs[k] : k \in 1..Len(pairs) } |-> sweeps[Pass(pr)]]

\* app.py 111-118: the candidates kept from the sweeps' results, in the order
\* of the two loops.
Candidates(columns, bests) ==
    LET pairs == OrderedPairs(columns)
        found == [k \in 1..Len(pairs) |->
                    [leader      |-> pairs[k][1],
                     follower    |-> pairs[k][2],
                     correlation |-> bests[pairs[k]].corr,
                     lag_minutes |-> bests[pairs[k]].lag]]
        Strong(rel) == ExceedsThreshold(rel.correlation)
    IN  SelectSeq(found, Strong)

\* app.py 83-119
calculate_correlations(table, fused) == Candidates(table.columns, BestLags(table, fused))

\*--------------------------------------------------------------------------
\* Leader snapshot: get_leaders_analytics (app.py 215-259)
\*--------------------------------------------------------------------------

\* LeaderQuality with the two tests in the opposite order.
LeaderQualityStrongFirst(influence, independence) ==
    IF influence >= 5 THEN "STRONG"
    ELSE IF influence >= 3 /\ independence = 0 THEN "ALPHA"
    ELSE "WEAK"

\* LeaderQuality with the ALPHA bound of 3 used for STRONG as well.
LeaderQualityStrongAtThree(influence, independence) ==
    IF influence >= 3 /\ independence = 0 THEN "ALPHA"
    ELSE IF influence >= 3 THEN "STRONG"
    ELSE "WEAK"

\* app.py 241-245: WEAK unless one of the two tests matches, ALPHA tested first.
LeaderQuality(influence, independence) ==
    IF influence >= 3 /\ independence = 0 THEN "ALPHA"
    ELSE IF influence >= 5 THEN "STRONG"
    ELSE "WEAK"


\* DedupBySymbol keeping the first occurrence of a follower symbol.
RECURSIVE DedupBySymbolKeepFirst(_)
DedupBySymbolKeepFirst(raw) ==
    IF raw = <<>> THEN <<>>
    ELSE LET init  == DedupBySymbolKeepFirst(SubSeq(raw, 1, Len(raw) - 1))
             f     == raw[Len(raw)]
             Same(g) == g.symbol = f.symbol
         IN  IF SelectSeq(init, Same) = <<>> THEN Append(init, f) ELSE init

\* app.py 225-228: a dict keyed by follower symbol keeps the position of the
\* first occurrence of a key and the value of the last one.
RECURSIVE DedupBySymbol(_)
DedupBySymbol(raw) ==
    IF raw = <<>> THEN <<>>
    ELSE LET init  == DedupBySymbol(SubSeq(raw, 1, Len(raw) - 1))
             f     == raw[Len(raw)]
             Same(g) == g.symbol = f.symbol
             Other(g) == g.symbol # f.symbol
         IN  IF SelectSeq(init, Same) = <<>> THEN Append(init, f)
             ELSE [k \in 1..Len(init) |-> IF init[k].symbol = f.symbol THEN f ELSE init[k]]

\* the Int of a number of three limbs, below 2^31
ToInt(N) == N[1] + N[2] * LIMB + N[3] * LIMB * LIMB

\* round(x, ndigits) of a float x, in units of 1 / scale = 10^-ndigits
\* (app.py 251-257): the multiple of the unit nearest to the value the
\* float64 x has, which is seldom the decimal it was written as; only when
\* that value lies halfway between two multiples is the even one taken.
\* |x| * scale is below 2^31.
RoundDecimal(x, scale) ==
    IF x.s = 0 \/ 0 - x.e > 5 * LIMB_BITS THEN 0
    ELSE LET N    == MulLimb(Wide(x.m), scale)
             k    == 0 - x.e
             q    == ShiftRight(N, k)
             half == Bit(N, k - 1) = 1
             rest == LowBits(N, k - 1)
             up   == half /\ (rest \/ q[1] % 2 = 1)
         IN  x.s * (ToInt(q) + IF up THEN 1 ELSE 0)

\* round(x / count, 2) in hundredths for an integer x (app.py 235, 257): the
\* division gives the float64 nearest to the quotient, which round() then
\* rounds.
RoundHundredths(x, count) == RoundDecimal(DoubleOf(x, count), 100)

\* the units of 1/10000 in which the model keeps the rounded numbers of a
\* snapshot row
FIXED_POINT == 10000

\* app.py 215-259: one snapshot row from one row r of the query result, or no
\* row when r has no followers. avg_correlation and followers_list are
\* functions of `followers`, which is kept in their place. volatility_score
\* is round(volatility, 4) and volume_momentum round(vol_ratio, 2) of the
\* float64 the query returned, both in units of 1/10000; avg_lag_minutes is
\* in hundredths.
LeaderRow(r, timestamp) ==
    LET followers_clean == DedupBySymbol(r.followers_info)
        count == Len(followers_clean)
    IN  IF count = 0 THEN <<>>
        ELSE <<[timestamp          |-> timestamp,
                leader             |-> r.leader,
                leader_quality     |-> LeaderQuality(r.influence_score, r.independence_score),
                volatility_score   |-> RoundDecimal(r.volatility, FIXED_POINT),
                volume_momentum    |-> 100 * RoundDecimal(r.volume_ratio, 100),
                influence_score    |-> r.influence_score,
                independence_score |-> r.independence_score,
                follower_count     |-> count,
                avg_lag_minutes    |-> RoundHundredths(
                                         SumOver([k \in 1..count |-> followers_clean[k].lag], 1, count),
                                         count),
                followers          |-> followers_clean]>>

RECURSIVE LeaderRows(_, _)
LeaderRows(rs, timestamp) ==
    IF rs = <<>> THEN <<>>
    ELSE LeaderRow(Head(rs), timestamp) \o LeaderRows(Tail(rs), timestamp)

\*--------------------------------------------------------------------------
\* Signal evaluator: signals.py
\* A history row as read_csv returns it: avg_correlation, avg_lag_minutes,
\* volatility_score and volume_momentum in units of 1/10000; the two optional
\* numbers are <<v>>, or <<>> when the column is missing or the cell is NaN;
\* leader_quality is "absent" when the column is missing.
\*--------------------------------------------------------------------------

\* signals.py 43: the default volume_momentum, 1.0
DEFAULT_VOLUME == 10000

\* signals.py 51: volume_mom > 1.1
ALPHA_VOLUME == 11000

\* signals.py 66: volatility > 0.4 and lag > 0.1 and corr > 0.6
BREAKOUT_VOLATILITY == 4000

BREAKOUT_LAG == 1000

BREAKOUT_CORR == 6000

\* signals.py 80: lag > 0.15 and corr > 0.55
MOMENTUM_LAG == 1500

MOMENTUM_CORR == 5500

\* signals.py 95: volume_mom > 2.0 and abs(lag) < 0.5
LOADING_VOLUME == 20000

LOADING_LAG == 5000

\* signals.py 108: lag < -1.0 and corr > 0.60
CATCHUP_LAG == 10000

CATCHUP_CORR == 6000

\* signals.py 121: abs(lag) < 0.08 and corr > 0.92
SYNC_LAG == 800

SYNC_CORR == 9200

\* signals.py 177-178: the rows kept in trading_signals.csv
SIGNALS_CAP == 2000

\* signals.py 52-59, 67-74, ...: the dict a rule appends (its description, a
\* text formatted from the same row, is left out).
Signal(strategy, strength, action, trade, condition) ==
    [strategy |-> strategy, signal_strength |-> strength,
     action_asset |-> action, trade_asset |-> trade, condition |-> condition]

\* detect_strategies with the rules chained by elif: the first match wins.
detect_strategies_first_match(row) ==
    LET leader     == row.leader
        corr       == row.avg_correlation
        lag        == row.avg_lag_minutes
        quality    == IF row.leader_quality = "absent" THEN "WEAK" ELSE row.leader_quality
        volatility == IF row.volatility_score = <<>> THEN 0 ELSE row.volatility_score[1]
        volume_mom == IF row.volume_momentum = <<>> THEN DEFAULT_VOLUME
                      ELSE row.volume_momentum[1]
        signals ==
            IF quality = "ALPHA" /\ volume_mom > ALPHA_VOLUME
            THEN <<Signal("ALPHA_PREDATOR", "CRITICAL", leader, "FOLLOWERS_AGGRESSIVE",
                          "Immediate Entry")>>
            ELSE IF volatility > BREAKOUT_VOLATILITY /\ lag > BREAKOUT_LAG /\ corr > BREAKOUT_CORR
            THEN <<Signal("VOL_BREAKOUT", "HIGH", leader, "FOLLOWERS", "Breakout Catch")>>
            ELSE IF lag > MOMENTUM_LAG /\ corr > MOMENTUM_CORR
            THEN <<Signal("LEADER_MOMENTUM", "MEDIUM", leader, "FOLLOWERS", "Standard Scalp")>>
            ELSE IF volume_mom > LOADING_VOLUME /\ Abs(lag) < LOADING_LAG
            THEN <<Signal("VOLUME_LOADING", "HIGH", leader, leader, "Anticipate Breakout")>>
            ELSE IF lag < 0 - CATCHUP_LAG /\ corr > CATCHUP_CORR
            THEN <<Signal("LAG_CATCHUP", "MEDIUM", "FOLLOWERS", leader, "Reversion")>>
            ELSE IF Abs(lag) < SYNC_LAG /\ corr > SYNC_CORR
            THEN <<Signal("INSTANT_SYNC", "HFT", leader, "FOLLOWERS", "HFT Execution")>>
            ELSE <<>>
    IN  [k \in 1..Len(signals) |->
           [strategy        |-> signals[k].strategy,
            signal_strength |-> signals[k].signal_strength,
            action_asset    |-> signals[k].action_asset,
            trade_asset     |-> signals[k].trade_asset,
            condition       |-> signals[k].condition,
            data_timestamp  |-> row.timestamp,
            leader_symbol   |-> leader,
            leader_quality  |-> quality,
            volatility      |-> volatility,
            volume_ratio    |-> volume_mom]]

\* signals.py 26-144. s1..s6 are `signals` after each of the six if blocks;
\* generated_at, the wall clock, is left out of the records.
detect_strategies(row) ==
    LET leader     == row.leader
        corr       == row.avg_correlation
        lag        == row.avg_lag_minutes
        quality    == IF row.leader_quality = "absent" THEN "WEAK" ELSE row.leader_quality
        volatility == IF row.volatility_score = <<>> THEN 0 ELSE row.volatility_score[1]
        volume_mom == IF row.volume_momentum = <<>> THEN DEFAULT_VOLUME
                      ELSE row.volume_momentum[1]
        s1 == IF quality = "ALPHA" /\ volume_mom > ALPHA_VOLUME
              THEN <<Signal("ALPHA_PREDATOR", "CRITICAL", leader, "FOLLOWERS_AGGRESSIVE",
                            "Immediate Entry")>>
              ELSE <<>>
        s2 == IF volatility > BREAKOUT_VOLATILITY /\ lag > BREAKOUT_LAG /\ corr > BREAKOUT_CORR
              THEN Append(s1, Signal("VOL_BREAKOUT", "HIGH", leader, "FOLLOWERS",
                                     "Breakout Catch"))
              ELSE s1
        s3 == IF lag > MOMENTUM_LAG /\ corr > MOMENTUM_CORR
              THEN Append(s2, Signal("LEADER_MOMENTUM", "MEDIUM", leader, "FOLLOWERS",
                                     "Standard Scalp"))
              ELSE s2
        s4 == IF volume_mom > LOADING_VOLUME /\ Abs(lag) < LOADING_LAG
              THEN Append(s3, Signal("VOLUME_LOADING", "HIGH", leader, leader,
                                     "Anticipate Breakout"))
              ELSE s3
        s5 == IF lag < 0 - CATCHUP_LAG /\ corr > CATCHUP_CORR
              THEN Append(s4, Signal("LAG_CATCHUP", "MEDIUM", "FOLLOWERS", leader,
                                     "Reversion"))
              ELSE s4
        s6 == IF Abs(lag) < SYNC_LAG /\ corr > SYNC_CORR
              THEN Append(s5, Signal("INSTANT_SYNC", "HFT", leader, "FOLLOWERS",
                                     "HFT Execution"))
              ELSE s5
    IN  [k \in 1..Len(s6) |->
           [strategy        |-> s6[k].strategy,
            signal_strength |-> s6[k].signal_strength,
            action_asset    |-> s6[k].action_asset,
            trade_asset     |-> s6[k].trade_asset,
            condition       |-> s6[k].condition,
            data_timestamp  |-> row.timestamp,
            leader_symbol   |-> leader,
            leader_quality  |-> quality,
            volatility      |-> volatility,
            volume_ratio    |-> volume_mom]]

\* signals.py 152: the rows up to which the quicksort of sort_values sorts by
\* insertion, keeping rows of equal timestamp in their order
STABLE_SORT_ROWS == 16

\* The rows by ascending timestamp, rows of equal timestamp keeping their
\* order.
RECURSIVE InsertionSort(_)
InsertionSort(rows) ==
    IF rows = <<>> THEN <<>>
    ELSE LET init == InsertionSort(SubSeq(rows, 1, Len(rows) - 1))
             r    == rows[Len(rows)]
             NotAfter(x) == x.timestamp <= r.timestamp
             After(x) == x.timestamp > r.timestamp
         IN  SelectSeq(init, NotAfter) \o <<r>> \o SelectSeq(init, After)

\* the orders in which the rows can be put
Orderings(rows) ==
    { [k \in 1..Len(rows) |-> rows[f[k]]] :
        f \in { g \in [1..Len(rows) -> 1..Len(rows)] :
                 \A i, j \in 1..Len(rows) : g[i] = g[j] => i = j } }

\* The rows by ascending timestamp, rows of equal timestamp in any order: the
\* frames that begin with the rows of the first timestamp.
RECURSIVE AscendingFrames(_)
AscendingFrames(rows) ==
    IF rows = <<>> THEN {<<>>}
    ELSE LET first == CHOOSE r \in 1..Len(rows) :
                         \A k \in 1..Len(rows) : rows[r].timestamp <= rows[k].timestamp
             First(x) == x.timestamp = rows[first].timestamp
             Later(x) == x.timestamp # rows[first].timestamp
         IN  { group \o rest : group \in Orderings(SelectSeq(rows, First)),
                               rest \in AscendingFrames(SelectSeq(rows, Later)) }

\* signals.py 152: sort_values('timestamp') with the default kind, quicksort:
\* the frames it can return. Up to STABLE_SORT_ROWS rows are sorted by
\* insertion; on more rows the order it leaves rows of equal timestamp in is
\* not defined.
SortByTimestamp(rows) ==
    IF Len(rows) <= STABLE_SORT_ROWS THEN {InsertionSort(rows)} ELSE AscendingFrames(rows)

RECURSIVE AllSignals(_)
AllSignals(rows) ==
    IF rows = <<>> THEN <<>>
    ELSE detect_strategies(Head(rows)) \o AllSignals(Tail(rows))

\* signals.py 146-163: the frames process_signals can return, one for each
\* frame sort_values can.
process_signals(rows) ==
    IF rows = <<>> THEN {<<>>}
    ELSE { LET last_timestamp == sorted[Len(sorted)].timestamp
               Current(r) == r.timestamp = last_timestamp
           IN  AllSignals(SelectSeq(sorted, Current)) : sorted \in SortByTimestamp(rows) }

\* signals.py 174-178 and 182: the frame that is written, from the stored
\* object when get_object and read_csv succeed (`read_ok`), else from the new
\* records alone.
CombinedSignals(stored, new_signals_df, read_ok) ==
    IF read_ok
    THEN LET all_rows == stored.rows \o new_signals_df
         IN  IF Len(all_rows) > SIGNALS_CAP
             THEN SubSeq(all_rows, Len(all_rows) - SIGNALS_CAP + 1, Len(all_rows))
             ELSE all_rows
    ELSE new_signals_df

\*--------------------------------------------------------------------------
\* Graph store: the Gremlin queries of app.py
\* The graph is a sequence of coin vertices and a sequence of 'leads' edges,
\* each in creation order. Timestamps are the number of the handler run.
\*--------------------------------------------------------------------------

HasVertex(g, symbol) == \E k \in 1..Len(g.vertices) : g.vertices[k].symbol = symbol

\* app.py 142-155: fold().coalesce(unfold().property(...), addV(...)).
\* property(key, value) is called without a cardinality and the store, Amazon
\* Neptune, then uses `set`: a vertex property holds the set of the values
\* given to it, and a value that differs from those it holds is added to
\* them. Every vertex with the symbol gets the three values, or one vertex is
\* added when there is none.
UpsertVertex(g, coin, meta, now) ==
    IF HasVertex(g, coin)
    THEN [g EXCEPT !.vertices =
            [k \in 1..Len(g.vertices) |->
               IF g.vertices[k].symbol = coin
               THEN [symbol       |-> coin,
                     volatility   |-> g.vertices[k].volatility \cup {meta.volatility},
                     volume_ratio |-> g.vertices[k].volume_ratio \cup {meta.volume_ratio},
                     last_seen    |-> g.vertices[k].last_seen \cup {now}]
               ELSE g.vertices[k]]]
    ELSE [g EXCEPT !.vertices = Append(g.vertices,
                                       [symbol       |-> coin,
                                        volatility   |-> {meta.volatility},
                                        volume_ratio |-> {meta.volume_ratio},
                                        last_seen    |-> {now}])]

\* update_neptune without the drop query: the edges are left as they are.
DropNoEdges(g, leader, follower) == g

\* update_neptune with inE for outE in the drop query: the edges from the
\* follower to the leader are dropped.
DropReverseEdges(g, leader, follower) ==
    LET Other(e) == ~(e.from = follower /\ e.to = leader)
    IN  [g EXCEPT !.edges = SelectSeq(g.edges, Other)]

\* app.py 160-164: every 'leads' edge from leader to follower is dropped.
DropEdges(g, leader, follower) ==
    LET Other(e) == ~(e.from = leader /\ e.to = follower)
    IN  [g EXCEPT !.edges = SelectSeq(g.edges, Other)]

\* app.py 167-175: an edge from the leader's vertex to the follower's; the
\* traversal is empty, and nothing is added, when either vertex is missing.
AddEdge(g, r, now) ==
    IF HasVertex(g, r.leader) /\ HasVertex(g, r.follower)
    THEN [g EXCEPT !.edges = Append(g.edges,
                                    [from        |-> r.leader,
                                     to          |-> r.follower,
                                     correlation |-> r.correlation,
                                     lag         |-> r.lag_minutes,
                                     updated_at  |-> now])]
    ELSE g

OutEdges(g, symbol) == LET From(e) == e.from = symbol IN SelectSeq(g.edges, From)

InEdges(g, symbol) == LET To(e) == e.to = symbol IN SelectSeq(g.edges, To)

\* app.py 201-202: by(coalesce(values(key), constant(0.0))) projects the
\* first value the property traversal yields, which is any of the values the
\* property holds, or 0.0 when it holds none.
ProjectedValues(values) == IF values = {} THEN {Zero} ELSE values

\* app.py 198-210: the results the query can return, each with one row for
\* each vertex that has an outgoing edge.
QueryLeaders(g) ==
    LET Leads(v) == OutEdges(g, v.symbol) # <<>>
        leaders  == SelectSeq(g.vertices, Leads)
        Row(v, projected) ==
            LET out == OutEdges(g, v.symbol)
            IN  [leader             |-> v.symbol,
                 volatility         |-> projected[1],
                 volume_ratio       |-> projected[2],
                 influence_score    |-> Len(out),
                 independence_score |-> Len(InEdges(g, v.symbol)),
                 followers_info     |-> [j \in 1..Len(out) |->
                                           [symbol |-> out[j].to,
                                            corr   |-> out[j].correlation,
                                            lag    |-> out[j].lag]]]
        Projections(k) == ProjectedValues(leaders[k].volatility)
                             \X ProjectedValues(leaders[k].volume_ratio)
        choices == { f \in [1..Len(leaders) ->
                               UNION { Projections(k) : k \in 1..Len(leaders) }] :
                       \A k \in 1..Len(leaders) : f[k] \in Projections(k) }
    IN  { [k \in 1..Len(leaders) |-> Row(leaders[k], f[k])] : f \in choices }

\*--------------------------------------------------------------------------
\* History store: update_csv_in_s3 of app.py
\*--------------------------------------------------------------------------

\* app.py 285: the rows kept of the leaders history
HISTORY_CAP == 5000

\* app.py 34: the symbols fetched, hence the most rows of one snapshot
MAX_SYMBOLS == 60

\* app.py 275-293: the frame that is written. `read` is how get_object and
\* read_csv ended: "ok", "NoSuchKey", or "error" for any other exception.
update_csv_in_s3(stored, new_df, read) ==
    IF read = "ok"
    THEN LET all_rows == stored.rows \o new_df
         IN  IF Len(all_rows) > HISTORY_CAP
             THEN SubSeq(all_rows, Len(all_rows) - HISTORY_CAP + 1, Len(all_rows))
             ELSE all_rows
    ELSE new_df

\*--------------------------------------------------------------------------
\* Bounds of the model
\*--------------------------------------------------------------------------

\* rows of a price table
MaxLen == 4

\* out-degree and in-degree of a vertex in a drawn query result
MaxInfluence == 8

MaxIndependence == 7

\* rows of a drawn leaders history with more than one row
MaxRows == 2

\* runs of app.handler, one after the other
MaxCycles == 2

\* calls of update_csv_in_s3 on one stored history
MaxAppends == 2

\* runs of app.handler that may overlap
MaxWriters == 2

\* The most edges of a drawn graph.
MaxEdges == 3

\* the price levels the columns of a drawn table take: three for the first
\* column, two for the second, which starts at the lower one
PriceLevels == {1, 2, 3}

TwoLevels == {1, 2}

\*--------------------------------------------------------------------------
\* Specification of the lag-correlation engine on drawn two-column tables
\*--------------------------------------------------------------------------

NoTable == [columns |-> <<>>, close |-> <<>>]

Table2(a, b) == [columns |-> <<"A", "B">>, close |-> [A |-> a, B |-> b]]

\* The tables of SpecMirror: in StarTable A correlates with B, C and D, which
\* do not correlate with one another; TailTable has C and D alone, which
\* correlate.
Table4(a, b, c, d) ==
    [columns |-> <<"A", "B", "C", "D">>, close |-> [A |-> a, B |-> b, C |-> c, D |-> d]]

StarTable == Table4(<<1, 2, 3>>, <<1, 1, 2>>, <<1, 1, 2>>, <<1, 1, 2>>)

TailTable == [columns |-> <<"C", "D">>, close |-> [C |-> <<1, 2, 3>>, D |-> <<1, 1, 2>>]]

MirrorTables == {StarTable, TailTable}

\* BestLags of the tables of SpecMirror under either build: the sweeps of a
\* table are the same in every run that fetches it, and these are computed
\* once.
MirrorSweeps ==
    { [table |-> t, fused |-> f, bests |-> BestLags(t, f)] : t \in MirrorTables, f \in BOOLEAN }

\* BestLags(table, fused), read from MirrorSweeps for the tables it has
Sweeps(table, fused) ==
    IF table \in MirrorTables
    THEN (CHOOSE s \in MirrorSweeps : s.table = table /\ s.fused = fused).bests
    ELSE BestLags(table, fused)

SnapshotIdle == results = <<>> /\ leaders_df = <<>>

EmptyGraph == [vertices |-> <<>>, edges |-> <<>>]

WritersIdle == writers = <<>> /\ exclusive = TRUE

PipelineIdle ==
    /\ metadata = <<>>
    /\ graph = EmptyGraph
    /\ unique_coins = {}
    /\ rel_index = 0
    /\ leaders_csv = [exists |-> FALSE, rows |-> <<>>]
    /\ s3_read = "none"
    /\ cycle = 0

NoObject == [exists |-> FALSE, rows |-> <<>>]

NoOtherRun == [pc |-> "idle", combined_df |-> <<>>]

OverlapIdle ==
    /\ combined_df = <<>>
    /\ other_run = NoOtherRun
    /\ history_df = <<>>
    /\ other_csv = NoOtherRun

SignalsIdle ==
    /\ df_history = <<>>
    /\ signals_df = <<>>
    /\ signals_csv = NoObject
    /\ response = 0
    /\ OverlapIdle

\* the build is either one
AnyBuild == fused_dot \in BOOLEAN

\* no correlation is computed and the build does not matter
NoDot == fused_dot = FALSE

\* A table on which the correlation of (A, B) and that of (B, A) at the
\* mirrored lag differ in the last bit.
RoundingTable == Table2(<<1, 1, 2, 3, 2>>, <<1, 1, 2, 2, 2>>)

InitCorr ==
    /\ pc = "table"
    /\ \/ \E n \in 1..MaxLen :
            \E a \in [1..n -> PriceLevels], b \in [1..n -> TwoLevels] :
              b[1] = 1 /\ df = Table2(a, b)
       \/ df = RoundingTable
    /\ correlations = <<>>
    /\ best = [app |-> <<>>, minutes |-> <<>>]
    /\ SnapshotIdle
    /\ SignalsIdle
    /\ PipelineIdle
    /\ WritersIdle
    /\ AnyBuild

\* app.py 83-119 on the drawn table; best.app records the (best_lag,
\* best_corr) each pair's sweep ended with.
CalculateCorrelations ==
    /\ pc = "table"
    /\ df.columns # <<>>
    /\ best' = [best EXCEPT !.app = Sweeps(df, fused_dot)]
    /\ correlations' = Candidates(df.columns, best'.app)
    /\ pc' = "correlated"
    /\ UNCHANGED <<df, results, leaders_df, df_history, signals_df, signals_csv, response,
                   pipelineVars,
                   writerVars, overlapVars, fused_dot>>

\* lambda_function.py 87-88 and 105-109: the returns of the price table, then
\* best_lag_minutes on each pair of columns i < j.
BestLagMinutes ==
    /\ pc = "correlated"
    /\ best' = [best EXCEPT !.minutes = BestMinutes(df.columns, Returns(df), fused_dot)]
    /\ pc' = "lagged"
    /\ UNCHANGED <<df, correlations, results, leaders_df, df_history, signals_df, signals_csv, response,
                   pipelineVars,
                   writerVars, overlapVars, fused_dot>>

NextCorr == CalculateCorrelations \/ BestLagMinutes

SpecCorr == InitCorr /\ [][NextCorr]_vars


\*--------------------------------------------------------------------------
\* Specification of get_leaders_analytics on drawn query results
\*--------------------------------------------------------------------------

FollowerNames == <<"B", "C", "D", "E", "F", "G", "H", "I", "J", "K">>

\* One row of the graph query of app.py 198-210 for leader A with `influence`
\* outgoing edges, to distinct followers, and `independence` incoming ones.
QueryRow(influence, independence) ==
    [leader             |-> "A",
     volatility         |-> Zero,
     volume_ratio       |-> Zero,
     influence_score    |-> influence,
     independence_score |-> independence,
     followers_info     |-> [k \in 1..influence |->
                               [symbol |-> FollowerNames[k],
                                corr   |-> DoubleOf(4, 5),
                                lag    |-> k]]]

CorrIdle ==
    /\ df = NoTable
    /\ correlations = <<>>
    /\ best = [app |-> <<>>, minutes |-> <<>>]

InitSnapshot ==
    /\ pc = "query"
    /\ \E i \in 1..MaxInfluence, j \in 0..MaxIndependence :
         results = <<QueryRow(i, j)>>
    /\ leaders_df = <<>>
    /\ CorrIdle
    /\ SignalsIdle
    /\ PipelineIdle
    /\ WritersIdle
    /\ NoDot

\* app.py 212-266 when the query answers: the rows are built and returned.
BuildSnapshot ==
    /\ pc = "query"
    /\ leaders_df' = LeaderRows(results, 1)
    /\ pc' = "built"
    /\ UNCHANGED <<df, correlations, best, results, df_history, signals_df, signals_csv, response,
                   pipelineVars,
                   writerVars, overlapVars, fused_dot>>

\* app.py 261-266 when the client or the query raises: leaders_data is still
\* empty and an empty frame is returned.
QueryFails ==
    /\ pc = "query"
    /\ leaders_df' = <<>>
    /\ pc' = "failed"
    /\ UNCHANGED <<df, correlations, best, results, df_history, signals_df, signals_csv, response,
                   pipelineVars,
                   writerVars, overlapVars, fused_dot>>

NextSnapshot == BuildSnapshot \/ QueryFails

SpecSnapshot == InitSnapshot /\ [][NextSnapshot]_vars

\*--------------------------------------------------------------------------
\* Properties of the leader-quality classification (SpecSnapshot)
\*--------------------------------------------------------------------------

\* C3: the label of a built row is ALPHA exactly when influence >= 3 and
\* independence = 0, STRONG exactly when that fails and influence >= 5, WEAK
\* exactly when both fail; (3,0) is ALPHA, (5,1) STRONG, (2,0) WEAK.
C3_ClassificationFirstMatch ==
    pc = "built" =>
       /\ Len(leaders_df) = 1
       /\ LET influence    == results[1].influence_score
              independence == results[1].independence_score
              quality      == leaders_df[1].leader_quality
              alpha        == influence >= 3 /\ independence = 0
          IN  /\ quality \in {"ALPHA", "STRONG", "WEAK"}
              /\ quality = "ALPHA" <=> alpha
              /\ quality = "STRONG" <=> (~alpha /\ influence >= 5)
              /\ quality = "WEAK" <=> (~alpha /\ influence < 5)
              /\ (influence = 3 /\ independence = 0) => quality = "ALPHA"
              /\ (influence = 5 /\ independence = 1) => quality = "STRONG"
              /\ (influence = 2 /\ independence = 0) => quality = "WEAK"

\* C3 witness: a built row for which both tests match, and the first decides.
C3_Witness ==
    /\ pc = "built"
    /\ results[1].influence_score >= 5
    /\ results[1].independence_score = 0
    /\ leaders_df[1].leader_quality = "ALPHA"

\* C4 as stated: influence 3 with independence 1 is labelled STRONG.
C4_BoundaryIsStrong ==
    (pc = "built" /\ results[1].influence_score = 3 /\ results[1].independence_score = 1)
       => leaders_df[1].leader_quality = "STRONG"

\* C4 amended: influence 3 with independence 1 fails the ALPHA test and, 3
\* being below 5, the STRONG test too: the row is labelled WEAK.
C4_BoundaryIsWeak ==
    (pc = "built" /\ results[1].influence_score = 3 /\ results[1].independence_score = 1)
       => (Len(leaders_df) = 1 /\ leaders_df[1].leader_quality = "WEAK")

\* C4 witness: the row for influence 3, independence 1 has been built.
C4_Witness ==
    /\ pc = "built"
    /\ results[1].influence_score = 3
    /\ results[1].independence_score = 1
    /\ Len(leaders_df) = 1

\*--------------------------------------------------------------------------
\* Specification of signals.handler on drawn leaders histories
\*--------------------------------------------------------------------------

HistoryRow(timestamp, leader, quality, volume, volatility, lag, corr) ==
    [timestamp        |-> timestamp,
     leader           |-> leader,
     leader_quality   |-> quality,
     volume_momentum  |-> volume,
     volatility_score |-> volatility,
     avg_lag_minutes  |-> lag,
     avg_correlation  |-> corr,
     follower_count   |-> 2]

\* One-row histories: every combination of values on both sides of each
\* threshold the rules test.
QualityValues == {"ALPHA", "STRONG", "WEAK", "absent", "nan"}

VolumeValues == {<<>>, <<11000>>, <<11100>>, <<20000>>, <<20100>>}

VolatilityValues == {<<>>, <<4000>>, <<4001>>}

LagValues == {0 - 10100, 0 - 10000, 0 - 5000, 0 - 700, 700, 800, 1000, 1100, 1500, 1600,
              4900, 5000}

CorrValues == {5500, 5501, 6000, 6001, 9200, 9201}

\* Rows of the longer histories: at either of two timestamps, a row on which
\* no rule fires, one on which three fire and one on which two others fire.
SmallRows ==
    { HistoryRow(ts, "Q", "WEAK", <<>>, <<>>, 1000, 5500) : ts \in {1, 2} } \cup
    { HistoryRow(ts, "A", "ALPHA", <<11100>>, <<4001>>, 1600, 6001) : ts \in {1, 2} } \cup
    { HistoryRow(ts, "S", "STRONG", <<20100>>, <<4000>>, 700, 9201) : ts \in {1, 2} }

\* A history of more rows than sort_values sorts by insertion: one row of
\* each of STABLE_SORT_ROWS - 1 runs, then two rows of the latest run, on which
\* different rules fire.
LongHistory ==
    [k \in 1..(STABLE_SORT_ROWS + 1) |->
       IF k < STABLE_SORT_ROWS
       THEN HistoryRow(k, "Q", "WEAK", <<>>, <<>>, 1000, 5500)
       ELSE IF k = STABLE_SORT_ROWS
       THEN HistoryRow(STABLE_SORT_ROWS, "A", "ALPHA", <<11100>>, <<4001>>, 1600, 6001)
       ELSE HistoryRow(STABLE_SORT_ROWS, "S", "STRONG", <<20100>>, <<4000>>, 700, 9201)]

StoredSignal ==
    [strategy |-> "LEADER_MOMENTUM", signal_strength |-> "MEDIUM", action_asset |-> "Z",
     trade_asset |-> "FOLLOWERS", condition |-> "Standard Scalp", data_timestamp |-> 0,
     leader_symbol |-> "Z", leader_quality |-> "WEAK", volatility |-> 0,
     volume_ratio |-> 10000]

\* The records of the second run: those of a history whose latest row is one
\* on which VOLUME_LOADING and INSTANT_SYNC fire.
OtherSignals == detect_strategies(HistoryRow(2, "S", "STRONG", <<20100>>, <<4000>>, 700, 9201))

InitSignals ==
    /\ pc = "read"
    /\ df_history = <<>>
    /\ signals_df = <<>>
    /\ signals_csv \in {NoObject, [exists |-> TRUE, rows |-> <<StoredSignal>>]}
    /\ response = 0
    /\ OverlapIdle
    /\ NoDot
    /\ CorrIdle
    /\ SnapshotIdle
    /\ PipelineIdle
    /\ WritersIdle

\* signals.py 16-21: the history object is read.
ReadHistory ==
    /\ pc = "read"
    /\ \/ df_history' = <<>>
       \/ \E q \in QualityValues, vm \in VolumeValues, vol \in VolatilityValues,
             lag \in LagValues, corr \in CorrValues :
            df_history' = <<HistoryRow(1, "A", q, vm, vol, lag, corr)>>
       \/ \E n \in 2..MaxRows : \E rows \in [1..n -> SmallRows] : df_history' = rows
       \/ df_history' = LongHistory
    /\ pc' = "loaded"
    /\ UNCHANGED <<df, correlations, best, results, leaders_df, signals_df, signals_csv,
                   response,
                   pipelineVars,
                   writerVars, overlapVars, fused_dot>>

\* signals.py 22-24: get_object or read_csv raises, an empty frame is returned.
ReadHistoryFails ==
    /\ pc = "read"
    /\ df_history' = <<>>
    /\ pc' = "loaded"
    /\ UNCHANGED <<df, correlations, best, results, leaders_df, signals_df, signals_csv,
                   response,
                   pipelineVars,
                   writerVars, overlapVars, fused_dot>>

\* signals.py 212-214
EmptyInput ==
    /\ pc = "loaded"
    /\ df_history = <<>>
    /\ response' = 404
    /\ pc' = "done"
    /\ UNCHANGED <<df, correlations, best, results, leaders_df, df_history, signals_df,
                   signals_csv,
                   pipelineVars,
                   writerVars, overlapVars, fused_dot>>

\* signals.py 216
ProcessSignals ==
    /\ pc = "loaded"
    /\ df_history # <<>>
    /\ signals_df' \in process_signals(df_history)
    /\ pc' = "evaluated"
    /\ UNCHANGED <<df, correlations, best, results, leaders_df, df_history, signals_csv,
                   response,
                   pipelineVars,
                   writerVars, overlapVars, fused_dot>>

\* signals.py 227-228 and 234: nothing to store.
NoSignals ==
    /\ pc = "evaluated"
    /\ signals_df = <<>>
    /\ response' = 200
    /\ pc' = "done"
    /\ UNCHANGED <<df, correlations, best, results, leaders_df, df_history, signals_df,
                   signals_csv,
                   pipelineVars,
                   writerVars, overlapVars, fused_dot>>

\* signals.py 226 and 170-182: update_signals_csv reads the stored object and
\* builds the frame it will write. The read succeeds only if the object
\* exists, and may fail then too.
GetSignalsCsv ==
    /\ pc = "evaluated"
    /\ signals_df # <<>>
    /\ \E read_ok \in (IF signals_csv.exists THEN BOOLEAN ELSE {FALSE}) :
         combined_df' = CombinedSignals(signals_csv, signals_df, read_ok)
    /\ pc' = "combined"
    /\ UNCHANGED <<df, correlations, best, results, leaders_df, df_history, signals_df,
                   signals_csv, response, other_run, history_df, other_csv,
                   pipelineVars,
                   writerVars, fused_dot>>

\* signals.py 184-191 and 234: put_object writes the frame over the object,
\* whatever the object holds by then.
PutSignalsCsv ==
    /\ pc = "combined"
    /\ signals_csv' = [exists |-> TRUE, rows |-> combined_df]
    /\ response' = 200
    /\ pc' = "done"
    /\ UNCHANGED <<df, correlations, best, results, leaders_df, df_history, signals_df,
                   pipelineVars,
                   writerVars, overlapVars, fused_dot>>

\* signals.py 187-191 and 230-232: put_object raises, the handler answers 500.
PutSignalsFails ==
    /\ pc = "combined"
    /\ response' = 500
    /\ pc' = "done"
    /\ UNCHANGED <<df, correlations, best, results, leaders_df, df_history, signals_df,
                   signals_csv,
                   pipelineVars,
                   writerVars, overlapVars, fused_dot>>

\* signals.py 170-182 in a second run, started by another S3 event while the
\* first is in update_signals_csv: it reads the stored object and builds its
\* frame from its records. A run that reads and writes before the first
\* reads, or after it has written, is a run of its own.
OtherRunGets ==
    /\ pc \in {"evaluated", "combined"}
    /\ signals_df # <<>>
    /\ other_run.pc = "idle"
    /\ \E read_ok \in (IF signals_csv.exists THEN BOOLEAN ELSE {FALSE}) :
         other_run' = [pc          |-> "combined",
                       combined_df |-> CombinedSignals(signals_csv, OtherSignals, read_ok)]
    /\ UNCHANGED <<pc, df, correlations, best, results, leaders_df, df_history, signals_df,
                   signals_csv, response, combined_df, history_df, other_csv,
                   pipelineVars,
                   writerVars, fused_dot>>

\* signals.py 184-191 in the second run: put_object writes its frame.
OtherRunPuts ==
    /\ other_run.pc = "combined"
    /\ signals_csv' = [exists |-> TRUE, rows |-> other_run.combined_df]
    /\ other_run' = [other_run EXCEPT !.pc = "done"]
    /\ UNCHANGED <<pc, df, correlations, best, results, leaders_df, df_history, signals_df,
                   response, combined_df, history_df, other_csv,
                   pipelineVars,
                   writerVars, fused_dot>>

NextSignals ==
    \/ ReadHistory
    \/ ReadHistoryFails
    \/ EmptyInput
    \/ ProcessSignals
    \/ NoSignals
    \/ GetSignalsCsv
    \/ PutSignalsCsv
    \/ PutSignalsFails
    \/ OtherRunGets
    \/ OtherRunPuts

SpecSignals == InitSignals /\ [][NextSignals]_vars

\*--------------------------------------------------------------------------
\* Properties of the signal evaluator (SpecSignals)
\*--------------------------------------------------------------------------

RuleOrder ==
    <<"ALPHA_PREDATOR", "VOL_BREAKOUT", "LEADER_MOMENTUM", "VOLUME_LOADING", "LAG_CATCHUP",
      "INSTANT_SYNC">>

\* The predicate of each rule on a history row, with the defaults of
\* signals.py 41-43 for what the row lacks.
Fires(rule, row) ==
    LET volume == IF row.volume_momentum = <<>> THEN DEFAULT_VOLUME
                  ELSE row.volume_momentum[1]
        volatility == IF row.volatility_score = <<>> THEN 0 ELSE row.volatility_score[1]
        lag == row.avg_lag_minutes
        corr == row.avg_correlation
    IN  CASE rule = "ALPHA_PREDATOR"  -> row.leader_quality = "ALPHA" /\ volume > ALPHA_VOLUME
          [] rule = "VOL_BREAKOUT"    -> /\ volatility > BREAKOUT_VOLATILITY
                                         /\ lag > BREAKOUT_LAG
                                         /\ corr > BREAKOUT_CORR
          [] rule = "LEADER_MOMENTUM" -> lag > MOMENTUM_LAG /\ corr > MOMENTUM_CORR
          [] rule = "VOLUME_LOADING"  -> /\ volume > LOADING_VOLUME
                                         /\ lag < LOADING_LAG
                                         /\ lag > 0 - LOADING_LAG
          [] rule = "LAG_CATCHUP"     -> lag < 0 - CATCHUP_LAG /\ corr > CATCHUP_CORR
          [] rule = "INSTANT_SYNC"    -> /\ lag < SYNC_LAG
                                         /\ lag > 0 - SYNC_LAG
                                         /\ corr > SYNC_CORR

\* The rows of the latest timestamp, in the order of the history.
LatestRows ==
    LET Latest(r) == \A k \in 1..Len(df_history) : df_history[k].timestamp <= r.timestamp
    IN  SelectSeq(df_history, Latest)

\* For each latest row in turn, the rules that fire on it, in rule order.
RECURSIVE FiringPairs(_)
FiringPairs(rows) ==
    IF rows = <<>> THEN <<>>
    ELSE LET row == Head(rows)
             Hit(rule) == Fires(rule, row)
             hits == SelectSeq(RuleOrder, Hit)
         IN  [k \in 1..Len(hits) |-> <<row.leader, hits[k]>>] \o FiringPairs(Tail(rows))

\* C2 as stated: an evaluation run never has an empty output; when no rule
\* fires, or the input has no rows, the output is the single sentinel record
\* NO_SIGNALS_DETECTED, and a handler that answers 200 has appended it to the
\* signal history.
C2_AlwaysEmitSentinel ==
    /\ (pc = "evaluated" \/ (pc = "done" /\ response # 500)) => signals_df # <<>>
    /\ ((pc = "evaluated" \/ (pc = "done" /\ response # 500)) /\ FiringPairs(LatestRows) = <<>>)
          => /\ Len(signals_df) = 1
             /\ signals_df[1].strategy = "NO_SIGNALS_DETECTED"
    /\ (pc = "done" /\ response = 200 /\ FiringPairs(LatestRows) = <<>>)
          => /\ signals_csv.exists
             /\ signals_csv.rows # <<>>
             /\ signals_csv.rows[Len(signals_csv.rows)].strategy = "NO_SIGNALS_DETECTED"

\* C5: the output holds, for each row of the latest snapshot, the rows taken
\* one after the other in some order, one record for every rule whose
\* predicate holds on the row and none for the others, in the order
\* ALPHA_PREDATOR, VOL_BREAKOUT, LEADER_MOMENTUM, VOLUME_LOADING, LAG_CATCHUP,
\* INSTANT_SYNC; the rows are taken in the order of the history when it has
\* no more rows than sort_values sorts by insertion.
C5_RulesIndependent ==
    (pc \in {"evaluated", "combined", "done"} /\ df_history # <<>>) =>
       LET emitted == [k \in 1..Len(signals_df) |->
                         <<signals_df[k].leader_symbol, signals_df[k].strategy>>]
       IN  /\ \E rows \in Orderings(LatestRows) : emitted = FiringPairs(rows)
           /\ Len(df_history) <= STABLE_SORT_ROWS => emitted = FiringPairs(LatestRows)

\* C5 witness: a one-row snapshot on which four rules fired together.
C5_Witness ==
    /\ pc = "evaluated"
    /\ Len(df_history) = 1
    /\ Len(signals_df) = 4

\*--------------------------------------------------------------------------
\* Properties of the lag-correlation engine (SpecCorr)
\*--------------------------------------------------------------------------

\* The lags app.py sweeps.
Window == ((0 - MAX_LAG)..MAX_LAG) \ {0}

\* The lags best_lag_minutes sweeps.
MinutesWindow == (0 - DEFAULT_MAX_LAG)..DEFAULT_MAX_LAG

\* The correlation x.corr(y.shift(direction * lag)) at each lag of -W..W, the
\* one of lag l at position l + W + 1.
LagCorrs(x, y, W, direction, fused) ==
    AsTuple([k \in 1..(2 * W + 1) |->
               ShiftedCorr(x, y, (0 - direction) * (k - W - 1), fused)])

At(c, W, lag) == c[lag + W + 1]

\* The correlations the prices of the table give for the pair at the lags
\* app.py sweeps with shift(-lag), and those its returns give at the lags
\* best_lag_minutes sweeps with shift(lag).
AppCorrs(pr) ==
    LagCorrs(Floats(df.close[pr[1]]), Floats(df.close[pr[2]]), MAX_LAG, 0 - 1, fused_dot)

MinutesCorrs(pr) ==
    LagCorrs(pct_change(Floats(df.close[pr[1]])), pct_change(Floats(df.close[pr[2]])),
             DEFAULT_MAX_LAG, 1, fused_dot)

\* the lags among `lags` at which the correlation is defined
DefinedIn(c, W, lags) == { l \in lags : ~IsNaN(At(c, W, l)) }

\* |c1| <= |c2| on defined correlations
AbsLeq(c1, c2) == ~AbsLess(c2, c1)

\* the lags among `lags` where the largest magnitude is attained
ArgMaxIn(c, W, lags) ==
    LET defined == DefinedIn(c, W, lags)
    IN  { l \in defined : \A m \in defined : AbsLeq(At(c, W, m), At(c, W, l)) }

\* C6: when the correlation of a pair is defined at some lag of the window,
\* the search ends with a lag inside the window and a correlation whose
\* magnitude is at least the magnitude at every lag of the window where it is
\* defined; the value is the one the table gives at the returned lag, except
\* that app.py returns (0, 0) when every defined correlation is exactly 0.
C6_BestLagIsTrueMaximum ==
    /\ pc = "correlated" =>
         \A pr \in DOMAIN best.app :
            LET c       == AppCorrs(pr)
                defined == DefinedIn(c, MAX_LAG, Window)
            IN  defined # {} =>
                  /\ best.app[pr].lag \in (0 - MAX_LAG)..MAX_LAG
                  /\ ~IsNaN(best.app[pr].corr)
                  /\ \A l \in defined : AbsLeq(At(c, MAX_LAG, l), best.app[pr].corr)
                  /\ \/ /\ best.app[pr].lag \in defined
                        /\ best.app[pr].corr = At(c, MAX_LAG, best.app[pr].lag)
                     \/ /\ best.app[pr] = [lag |-> 0, corr |-> Zero]
                        /\ \A l \in defined : At(c, MAX_LAG, l) = Zero
    /\ pc = "lagged" =>
         \A pr \in DOMAIN best.minutes :
            LET c       == MinutesCorrs(pr)
                defined == DefinedIn(c, DEFAULT_MAX_LAG, MinutesWindow)
            IN  defined # {} =>
                  /\ best.minutes[pr].lag \in defined
                  /\ best.minutes[pr].corr = At(c, DEFAULT_MAX_LAG, best.minutes[pr].lag)
                  /\ \A l \in defined :
                        AbsLeq(At(c, DEFAULT_MAX_LAG, l), best.minutes[pr].corr)

\* C6 witness: both searches have run on a pair whose first defined lag does
\* not carry the largest magnitude, so the maximum is not the first candidate.
C6_Witness ==
    /\ pc = "lagged"
    /\ \E pr \in DOMAIN best.minutes :
         LET c  == AppCorrs(pr)
             cm == MinutesCorrs(pr)
         IN  /\ \E l \in DefinedIn(c, MAX_LAG, Window) :
                  /\ \A m \in DefinedIn(c, MAX_LAG, Window) : l <= m
                  /\ ~AbsLeq(best.app[pr].corr, At(c, MAX_LAG, l))
             /\ \E l \in DefinedIn(cm, DEFAULT_MAX_LAG, MinutesWindow) :
                  /\ \A m \in DefinedIn(cm, DEFAULT_MAX_LAG, MinutesWindow) : l <= m
                  /\ ~AbsLeq(best.minutes[pr].corr, At(cm, DEFAULT_MAX_LAG, l))

\* C7 as stated: the search for (B, A) returns the negated lag and the same
\* correlation as the search for (A, B), ties included.
C7_MirrorSymmetry ==
    pc = "correlated" =>
       \A pr \in DOMAIN best.app :
          /\ best.app[<<pr[2], pr[1]>>].lag = 0 - best.app[pr].lag
          /\ best.app[<<pr[2], pr[1]>>].corr = best.app[pr].corr

\* The float64 computed for (A, B) at each lag L is the one computed for
\* (B, A) at -L: the two divide the covariance by the two deviations in
\* opposite orders and can differ in the last bit.
MirroredCorrs(c, r) == \A l \in Window : At(c, MAX_LAG, l) = At(r, MAX_LAG, 0 - l)

\* C7 amended: the mirror relation holds whenever the computed correlations
\* of (A, B) at L and of (B, A) at -L are equal at every lag and the largest
\* magnitude is attained at no more than one lag of the window, or is 0.
C7_MirrorSymmetryUniqueMax ==
    pc = "correlated" =>
       \A pr \in UpperPairs(df.columns) :
          LET c == AppCorrs(pr)
              r == AppCorrs(<<pr[2], pr[1]>>)
          IN  (/\ MirroredCorrs(c, r)
               /\ \/ Cardinality(ArgMaxIn(c, MAX_LAG, Window)) <= 1
                  \/ \A l \in DefinedIn(c, MAX_LAG, Window) : At(c, MAX_LAG, l) = Zero) =>
                 /\ best.app[<<pr[2], pr[1]>>].lag = 0 - best.app[pr].lag
                 /\ best.app[<<pr[2], pr[1]>>].corr = best.app[pr].corr

\* C7 witness: a pair with several defined lags of which exactly one carries
\* the largest magnitude, found by both searches at mirrored lags.
C7_Witness ==
    /\ pc = "correlated"
    /\ \E pr \in DOMAIN best.app :
         LET c == AppCorrs(pr)
             r == AppCorrs(<<pr[2], pr[1]>>)
         IN  /\ MirroredCorrs(c, r)
             /\ Cardinality(DefinedIn(c, MAX_LAG, Window)) >= 3
             /\ Cardinality(ArgMaxIn(c, MAX_LAG, Window)) = 1
             /\ best.app[pr].lag # 0
             /\ best.app[<<pr[2], pr[1]>>].lag = 0 - best.app[pr].lag
             /\ best.app[<<pr[2], pr[1]>>].corr = best.app[pr].corr

\* C8: a candidate (a leads b) is emitted exactly when the largest magnitude
\* over the window exceeds 0.70, at most once per ordered pair; it carries a
\* lag of the window where that magnitude is attained and the signed
\* correlation the table gives there; a pair undefined at every lag gives none.
C8_CandidateIffAboveThreshold ==
    pc = "correlated" =>
       /\ \A pr \in DOMAIN best.app :
            LET c       == AppCorrs(pr)
                emitted == { k \in 1..Len(correlations) :
                               /\ correlations[k].leader = pr[1]
                               /\ correlations[k].follower = pr[2] }
            IN  /\ Cardinality(emitted) <= 1
                /\ emitted # {} <=>
                     \E l \in DefinedIn(c, MAX_LAG, Window) :
                        AbsLess(THRESHOLD, At(c, MAX_LAG, l))
                /\ \A k \in emitted :
                     /\ correlations[k].lag_minutes \in ArgMaxIn(c, MAX_LAG, Window)
                     /\ correlations[k].correlation = At(c, MAX_LAG, correlations[k].lag_minutes)
       /\ \A k \in 1..Len(correlations) :
            <<correlations[k].leader, correlations[k].follower>> \in DOMAIN best.app

\* C8 witness: a run that emitted a negative correlation of magnitude below 1
\* at a negative lag.
C8_Witness ==
    /\ pc = "correlated"
    /\ \E k \in 1..Len(correlations) :
         /\ FloatLess(correlations[k].correlation, Zero)
         /\ AbsLess(correlations[k].correlation, One)
         /\ correlations[k].lag_minutes < 0

\* a pair of the drawn table whose correlation is undefined at every lag
C8_UndefinedPairSilent ==
    /\ pc = "correlated"
    /\ correlations = <<>>
    /\ \E pr \in DOMAIN best.app : DefinedIn(AppCorrs(pr), MAX_LAG, Window) = {}

\*--------------------------------------------------------------------------
\* Specification of app.handler: runs of the pipeline, one at a time
\*--------------------------------------------------------------------------

Table3(a, b, c) == [columns |-> <<"A", "B", "C">>, close |-> [A |-> a, B |-> b, C |-> c]]

\* B follows A one row later.
RisingTable == Table2(<<1, 2, 3>>, <<1, 1, 2>>)

\* B moves against A two rows earlier.
FallingTable == Table2(<<1, 1, 1, 2>>, <<2, 1, 1, 1>>)

\* B does not move: no correlation is defined.
FlatTable == Table2(<<3, 1, 2>>, <<1, 1, 1>>)

\* B repeats A five rows later but for two rows, C but for six: the
\* correlation of A with B five rows later is 0.8999999999999999, with C
\* 0.846414739030318, and no lag brings B and C above the threshold.
ScenarioTable ==
    Table3(<<1, 2, 3, 2, 2, 1, 1, 3, 1, 2, 3, 1, 3, 3, 2, 1, 1, 2, 1, 1>>,
           <<3, 2, 2, 1, 2, 1, 2, 3, 3, 2, 1, 1, 3, 1, 2, 3, 1, 2, 3, 2>>,
           <<3, 2, 2, 1, 2, 1, 2, 3, 2, 2, 1, 1, 3, 1, 3, 2, 2, 3, 3, 2>>)

CycleTables == {RisingTable, FallingTable, FlatTable}

\* app.py 61: the rows of log_ret the volatility is taken over
VOLATILITY_ROWS == 60

\* app.py 64: the rows of the rolling mean of the volume
ROLLING_ROWS == 20

\* app.py 60: numpy.log of the ratios of two prices among 1, 2 and 3 other
\* than 1: the float64 nearest to the logarithm of the float64 x.
LogTable ==
    { [x |-> DoubleOf(1, 2), log |-> [s |-> 0 - 1, m |-> <<14831, 15336, 9263, 1419>>, e |-> 0 - 53]],
      [x |-> DoubleOf(1, 3), log |-> [s |-> 0 - 1, m |-> <<779, 10932, 16039, 1124>>, e |-> 0 - 52]],
      [x |-> DoubleOf(2, 3), log |-> [s |-> 0 - 1, m |-> <<6221, 13054, 12862, 1660>>, e |-> 0 - 54]],
      [x |-> DoubleOf(3, 2), log |-> [s |-> 1, m |-> <<6220, 13054, 12862, 1660>>, e |-> 0 - 54]],
      [x |-> DoubleOf(2, 1), log |-> [s |-> 1, m |-> <<14831, 15336, 9263, 1419>>, e |-> 0 - 53]],
      [x |-> DoubleOf(3, 1), log |-> [s |-> 1, m |-> <<779, 10932, 16039, 1124>>, e |-> 0 - 52]] }

Log(x) == IF x = One THEN Zero ELSE (CHOOSE r \in LogTable : r.x = x).log

\* app.py 60: np.log(close / close.shift(1)); the first row has no row before
\* it and is NaN
LogReturns(close) ==
    AsTuple([t \in 1..Len(close) |->
               IF t = 1 THEN NaN ELSE Log(FloatDiv(close[t], close[t - 1]))])

\* tail(n)
LastRows(xs, n) == SubSeq(xs, Max(1, Len(xs) - n + 1), Len(xs))

\* the values with 0 for each NaN
Filled(values) ==
    AsTuple([t \in 1..Len(values) |-> IF IsNaN(values[t]) THEN Zero ELSE values[t]])

\* (avg - values) ** 2, with 0 for each NaN
SquaredDeviations(values, avg) ==
    AsTuple([t \in 1..Len(values) |->
               IF IsNaN(values[t]) THEN Zero
               ELSE FloatMul(FloatSub(avg, values[t]), FloatSub(avg, values[t]))])

\* the standard deviation of the `count` values that are not NaN
StdOf(values, filled, count) ==
    FloatSqrt(FloatDiv(PairwiseSum(SquaredDeviations(values,
                                                     FloatDiv(PairwiseSum(filled),
                                                              FromInt(count)))),
                       FromInt(count - 1)))

\* Series.std(), pandas nanvar with ddof = 1: the NaN are left out of the
\* count and are 0 in the sums; NaN for fewer than two values.
nanstd(values) ==
    LET Valid(v) == ~IsNaN(v)
        count == Len(SelectSeq(values, Valid))
    IN  IF count <= 1 THEN NaN ELSE StdOf(values, Filled(values), count)

\* app.py 61 and 69: std() * 100 of the last 60 log returns, 0.0 when it is
\* NaN
PercentOrZero(std) == IF IsNaN(std) THEN Zero ELSE FloatMul(std, FromInt(100))

Volatility(close) == PercentOrZero(nanstd(LastRows(LogReturns(close), VOLATILITY_ROWS)))

\* round(x, ndigits) of a numpy.float64 x, for 10^ndigits = scale (app.py 66):
\* numpy multiplies x by the scale, takes the nearest whole number (rint, the
\* even one of two equally near) and divides by the scale, each of the three
\* a float64 operation; the product is rounded before rint sees it, so that
\* 0.015 gives 0.02 and 0.005 gives 0.0.
numpy_round(x, scale) == DoubleOf(RoundDecimal(FloatMul(x, FromInt(scale)), 1), scale)

\* app.py 66: round(cur_vol / avg_vol, 2) if avg_vol > 0 else 0, as a float;
\* the quotient of two values of a frame is a numpy.float64.
RatioOrZero(cur_vol, avg_vol) ==
    IF IsNaN(avg_vol) \/ ~FloatLess(Zero, avg_vol) THEN Zero
    ELSE numpy_round(FloatDiv(cur_vol, avg_vol), 100)

\* app.py 64-66 and 70: the last volume over rolling(20).mean() of the last
\* row, which is NaN when there are fewer than 20 rows. The volumes are whole
\* numbers, whose sums are exact in any order.
VolumeRatio(volume) ==
    RatioOrZero(volume[Len(volume)],
                IF Len(volume) < ROLLING_ROWS THEN NaN
                ELSE FloatDiv(SumFrom(LastRows(volume, ROLLING_ROWS), 1, Zero),
                              FromInt(ROLLING_ROWS)))

\* app.py 58-71: the metadata of the coins `coins`, in the order fetched,
\* from the closes and the volumes of their candles.
Metrics(coins, table, volume) ==
    [k \in 1..Len(coins) |->
       [coin         |-> coins[k],
        volatility   |-> Volatility(Floats(table.close[coins[k]])),
        volume_ratio |-> VolumeRatio(Floats(volume[coins[k]]))]]

\* candles of volume 1 for the coins of a table
UnitVolumes(table) ==
    [c \in { table.columns[k] : k \in 1..Len(table.columns) } |->
       [t \in 1..Len(table.close[c]) |-> 1]]

\* The volumes of the candles of ScenarioTable: 1 but for the last candle of
\* A and of C.
ScenarioVolumes ==
    [A |-> [t \in 1..20 |-> IF t = 20 THEN 2 ELSE 1],
     B |-> [t \in 1..20 |-> 1],
     C |-> [t \in 1..20 |-> IF t = 20 THEN 3 ELSE 1]]

Without(columns, coin) == LET Other(c) == c # coin IN SelectSeq(columns, Other)

\* app.py 139
MetaOf(coin) ==
    LET k == CHOOSE k \in 1..Len(metadata) : metadata[k].coin = coin
    IN  [volatility |-> metadata[k].volatility, volume_ratio |-> metadata[k].volume_ratio]

\* app.py 325-326, 298-302: the handler returns `status`, or raises (500), and
\* its locals are gone.
HandlerReturns(status) ==
    /\ pc' = "done"
    /\ response' = status
    /\ df' = NoTable
    /\ metadata' = <<>>
    /\ correlations' = <<>>
    /\ best' = [app |-> <<>>, minutes |-> <<>>]
    /\ results' = <<>>
    /\ leaders_df' = <<>>
    /\ unique_coins' = {}
    /\ rel_index' = 0

Init ==
    /\ pc = "start"
    /\ CorrIdle
    /\ SnapshotIdle
    /\ SignalsIdle
    /\ PipelineIdle
    /\ WritersIdle
    /\ AnyBuild

\* app.py 309, 18-81: a run starts and get_binance_data returns the table of
\* the closes and the metadata computed from the candles of each coin; a coin
\* whose metrics raised has a column and no metadata. The table is empty when
\* the markets cannot be loaded.
GetBinanceData ==
    /\ pc \in {"start", "done"}
    /\ cycle < MaxCycles
    /\ cycle' = cycle + 1
    /\ \/ df' = NoTable /\ metadata' = <<>>
       \/ \E t \in CycleTables :
            /\ df' = t
            /\ \E keys \in {t.columns} \cup
                           { Without(t.columns, t.columns[k]) : k \in 1..Len(t.columns) } :
                 metadata' = Metrics(keys, t, UnitVolumes(t))
    /\ pc' = "table"
    /\ s3_read' = "none"
    /\ response' = 0
    /\ UNCHANGED <<correlations, best, results, leaders_df, unique_coins, rel_index, graph,
                   leaders_csv, df_history, signals_df, signals_csv,
                   writerVars, overlapVars, fused_dot>>

\* app.py 311, 325-326
EmptyTable ==
    /\ pc = "table"
    /\ df.columns = <<>>
    /\ HandlerReturns(200)
    /\ UNCHANGED <<df_history, signals_df, signals_csv, graph, leaders_csv, s3_read, cycle,
                   writerVars, overlapVars, fused_dot>>

\* app.py 315, 325-326
NoCorrelations ==
    /\ pc = "correlated"
    /\ correlations = <<>>
    /\ HandlerReturns(200)
    /\ UNCHANGED <<df_history, signals_df, signals_csv, graph, leaders_csv, s3_read, cycle,
                   writerVars, overlapVars, fused_dot>>

\* app.py 132-136: the client is made and the vertex loop entered.
ConnectNeptune ==
    /\ pc = "correlated"
    /\ correlations # <<>>
    /\ unique_coins' = { metadata[k].coin : k \in 1..Len(metadata) }
    /\ rel_index' = 1
    /\ pc' = IF unique_coins' = {} THEN "drop" ELSE "vertices"
    /\ UNCHANGED <<df, correlations, best, results, leaders_df, df_history, signals_df,
                   signals_csv, response, metadata, graph, leaders_csv, s3_read, cycle,
                   writerVars, overlapVars, fused_dot>>

\* app.py 138-155: one pass of the vertex loop, in the order of a set.
UpsertCoin ==
    /\ pc = "vertices"
    /\ \E coin \in unique_coins :
         /\ graph' = UpsertVertex(graph, coin, MetaOf(coin), cycle)
         /\ unique_coins' = unique_coins \ {coin}
    /\ pc' = IF unique_coins' = {} THEN "drop" ELSE "vertices"
    /\ UNCHANGED <<df, correlations, best, results, leaders_df, df_history, signals_df,
                   signals_csv, response, metadata, rel_index, leaders_csv, s3_read, cycle,
                   writerVars, overlapVars, fused_dot>>

\* app.py 160-164: the drop query of relationship rel_index.
DropOldEdge ==
    /\ pc = "drop"
    /\ graph' = DropEdges(graph, correlations[rel_index].leader,
                          correlations[rel_index].follower)
    /\ pc' = "add"
    /\ UNCHANGED <<df, correlations, best, results, leaders_df, df_history, signals_df,
                   signals_csv, response, metadata, unique_coins, rel_index, leaders_csv,
                   s3_read, cycle,
                   writerVars, overlapVars, fused_dot>>

\* app.py 167-175: the add query of relationship rel_index.
AddNewEdge ==
    /\ pc = "add"
    /\ graph' = AddEdge(graph, correlations[rel_index], cycle)
    /\ rel_index' = rel_index + 1
    /\ pc' = IF rel_index' > Len(correlations) THEN "updated" ELSE "drop"
    /\ UNCHANGED <<df, correlations, best, results, leaders_df, df_history, signals_df,
                   signals_csv, response, metadata, unique_coins, leaders_csv, s3_read,
                   cycle,
                   writerVars, overlapVars, fused_dot>>

\* app.py 177-180: the client or a query raises; update_neptune prints the
\* error and returns.
NeptuneFails ==
    /\ \/ pc = "correlated" /\ correlations # <<>>
       \/ pc \in {"vertices", "drop", "add"}
    /\ pc' = "updated"
    /\ UNCHANGED <<df, correlations, best, results, leaders_df, df_history, signals_df,
                   signals_csv, response, pipelineVars,
                   writerVars, overlapVars, fused_dot>>

\* app.py 320, 182-266: the query answers and the snapshot rows are built.
GetLeadersAnalytics ==
    /\ pc = "updated"
    /\ results' \in QueryLeaders(graph)
    /\ leaders_df' = LeaderRows(results', cycle)
    /\ pc' = "built"
    /\ UNCHANGED <<df, correlations, best, df_history, signals_df, signals_csv, response,
                   pipelineVars,
                   writerVars, overlapVars, fused_dot>>

\* app.py 261-266: the client or the query raises, an empty frame is returned.
AnalyticsFails ==
    /\ pc = "updated"
    /\ leaders_df' = <<>>
    /\ pc' = "failed"
    /\ UNCHANGED <<df, correlations, best, results, df_history, signals_df, signals_csv,
                   response, pipelineVars,
                   writerVars, overlapVars, fused_dot>>

\* How get_object and read_csv of the stored history can end.
ReadOutcomes == IF leaders_csv.exists THEN {"ok", "error"} ELSE {"NoSuchKey", "error"}

\* app.py 269-271, 325-326
UpdateCsvEmpty ==
    /\ pc \in {"built", "failed"}
    /\ leaders_df = <<>>
    /\ HandlerReturns(200)
    /\ UNCHANGED <<df_history, signals_df, signals_csv, graph, leaders_csv, s3_read, cycle,
                   writerVars, overlapVars, fused_dot>>

\* app.py 273-293: get_object and read_csv answer, or raise, and the frame to
\* write is built from what was read.
GetLeadersCsv ==
    /\ pc \in {"built", "failed"}
    /\ leaders_df # <<>>
    /\ \E read \in ReadOutcomes :
         /\ s3_read' = read
         /\ history_df' = update_csv_in_s3(leaders_csv, leaders_df, read)
    /\ pc' = "history"
    /\ UNCHANGED <<df, correlations, best, results, leaders_df, df_history, signals_df,
                   signals_csv, response, metadata, graph, unique_coins, rel_index,
                   leaders_csv, cycle, combined_df, other_run, other_csv,
                   writerVars, fused_dot>>

\* app.py 295-303, 325-326: put_object writes the frame over the object,
\* whatever the object holds by then.
PutLeadersCsv ==
    /\ pc = "history"
    /\ leaders_csv' = [exists |-> TRUE, rows |-> history_df]
    /\ history_df' = <<>>
    /\ HandlerReturns(200)
    /\ UNCHANGED <<df_history, signals_df, signals_csv, graph, s3_read, cycle,
                   combined_df, other_run, other_csv,
                   writerVars, fused_dot>>

\* app.py 298-302: put_object raises and the handler with it.
UpdateCsvPutFails ==
    /\ pc = "history"
    /\ history_df' = <<>>
    /\ HandlerReturns(500)
    /\ UNCHANGED <<df_history, signals_df, signals_csv, graph, leaders_csv, s3_read, cycle,
                   combined_df, other_run, other_csv,
                   writerVars, fused_dot>>

\* The clock reading of the second run, one no modelled run has.
OtherClock == MaxCycles + MaxAppends + 1

\* app.py 213, 248: the rows with the timestamp of another run.
Restamped(rows, timestamp) ==
    [k \in 1..Len(rows) |-> [rows[k] EXCEPT !.timestamp = timestamp]]

\* app.py 273-293 in a second run of app.handler, started while the first is
\* in update_csv_in_s3: it has built the snapshot of the same graph under its
\* own timestamp, reads the stored history and builds its frame. A run that
\* reads and writes before the first reads, or after it has written, is a run
\* of its own.
OtherCsvGets ==
    /\ pc \in {"built", "history"}
    /\ leaders_df # <<>>
    /\ other_csv.pc = "idle"
    /\ \E read \in ReadOutcomes :
         other_csv' = [pc          |-> "combined",
                       combined_df |-> update_csv_in_s3(leaders_csv,
                                                         Restamped(leaders_df, OtherClock),
                                                         read)]
    /\ UNCHANGED <<pc, df, correlations, best, results, leaders_df, df_history, signals_df,
                   signals_csv, response, pipelineVars, combined_df, other_run, history_df,
                   writerVars, fused_dot>>

\* app.py 295-303 in the second run: put_object writes its frame.
OtherCsvPuts ==
    /\ other_csv.pc = "combined"
    /\ leaders_csv' = [exists |-> TRUE, rows |-> other_csv.combined_df]
    /\ other_csv' = [other_csv EXCEPT !.pc = "done"]
    /\ UNCHANGED <<pc, df, correlations, best, results, leaders_df, df_history, signals_df,
                   signals_csv, response, metadata, graph, unique_coins, rel_index, s3_read,
                   cycle, combined_df, other_run, history_df,
                   writerVars, fused_dot>>

Next ==
    \/ GetBinanceData
    \/ EmptyTable
    \/ CalculateCorrelations
    \/ NoCorrelations
    \/ ConnectNeptune
    \/ UpsertCoin
    \/ DropOldEdge
    \/ AddNewEdge
    \/ NeptuneFails
    \/ GetLeadersAnalytics
    \/ AnalyticsFails
    \/ UpdateCsvEmpty
    \/ GetLeadersCsv
    \/ PutLeadersCsv
    \/ UpdateCsvPutFails
    \/ OtherCsvGets
    \/ OtherCsvPuts

Spec == Init /\ [][Next]_vars

\*--------------------------------------------------------------------------
\* Specification of one run of app.handler on the scenario table, from the
\* return of get_binance_data, the graph and the history store being empty
\*--------------------------------------------------------------------------

InitScenario ==
    /\ pc = "table"
    /\ df = ScenarioTable
    /\ \E keys \in {df.columns} \cup { Without(df.columns, df.columns[k]) : k \in 1..3 } :
         metadata = Metrics(keys, df, ScenarioVolumes)
    /\ cycle = 1
    /\ correlations = <<>>
    /\ best = [app |-> <<>>, minutes |-> <<>>]
    /\ graph = EmptyGraph
    /\ unique_coins = {}
    /\ rel_index = 0
    /\ leaders_csv = NoObject
    /\ s3_read = "none"
    /\ SnapshotIdle
    /\ SignalsIdle
    /\ WritersIdle
    /\ AnyBuild

NextScenario ==
    \/ CalculateCorrelations
    \/ ConnectNeptune
    \/ UpsertCoin
    \/ DropOldEdge
    \/ AddNewEdge
    \/ NeptuneFails
    \/ GetLeadersAnalytics
    \/ AnalyticsFails
    \/ UpdateCsvEmpty
    \/ GetLeadersCsv
    \/ PutLeadersCsv
    \/ UpdateCsvPutFails
    \/ OtherCsvGets
    \/ OtherCsvPuts

SpecScenario == InitScenario /\ [][NextScenario]_vars

\*--------------------------------------------------------------------------
\* Specification of update_csv_in_s3 on stored histories near the cap
\*--------------------------------------------------------------------------

\* n snapshot rows of run `timestamp`, reduced to timestamp and leader.
SnapshotRows(n, timestamp) == [i \in 1..n |-> [timestamp |-> timestamp, leader |-> i]]

StoredSizes == {1, HISTORY_CAP - 20, HISTORY_CAP - 10, HISTORY_CAP}

SnapshotSizes == {0, 1, 20, MAX_SYMBOLS}

InitCsv ==
    /\ pc = "built"
    /\ cycle = 1
    /\ \E n \in SnapshotSizes : leaders_df = SnapshotRows(n, 1)
    /\ \/ leaders_csv = NoObject
       \/ \E k \in StoredSizes : leaders_csv = [exists |-> TRUE, rows |-> SnapshotRows(k, 0)]
    /\ s3_read = "none"
    /\ metadata = <<>>
    /\ graph = EmptyGraph
    /\ unique_coins = {}
    /\ rel_index = 0
    /\ results = <<>>
    /\ CorrIdle
    /\ SignalsIdle
    /\ WritersIdle
    /\ NoDot

\* The snapshot of the next run reaches update_csv_in_s3.
NextSnapshotRows ==
    /\ pc = "done"
    /\ cycle < MaxAppends
    /\ cycle' = cycle + 1
    /\ \E n \in SnapshotSizes : leaders_df' = SnapshotRows(n, cycle')
    /\ s3_read' = "none"
    /\ response' = 0
    /\ pc' = "built"
    /\ UNCHANGED <<df, correlations, best, results, df_history, signals_df, signals_csv,
                   metadata, graph, unique_coins, rel_index, leaders_csv,
                   writerVars, overlapVars, fused_dot>>

NextCsv ==
    \/ UpdateCsvEmpty
    \/ GetLeadersCsv
    \/ PutLeadersCsv
    \/ UpdateCsvPutFails
    \/ OtherCsvGets
    \/ OtherCsvPuts
    \/ NextSnapshotRows

SpecCsv == InitCsv /\ [][NextCsv]_vars

\*--------------------------------------------------------------------------
\* Properties of the graph update (Spec)
\*--------------------------------------------------------------------------

EdgesBetween(leader, follower) ==
    LET Joins(e) == e.from = leader /\ e.to = follower
    IN  SelectSeq(graph.edges, Joins)

\* The relationships whose add query has run in the current call of
\* update_neptune.
Written == 1..(rel_index - 1)

\* C1: with one writer at a time the graph never holds two 'leads' edges for
\* one ordered pair, and once the add query of a relationship whose vertices
\* exist has run, whether the pair had an edge before or not, the pair has
\* exactly one edge until the run ends, carrying the correlation and lag of
\* that relationship.
C1_SingleEdgePerPair ==
    /\ \A j, k \in 1..Len(graph.edges) :
         (graph.edges[j].from = graph.edges[k].from /\ graph.edges[j].to = graph.edges[k].to)
            => j = k
    /\ pc \in {"drop", "add", "updated", "built", "failed", "done"} =>
         \A k \in Written :
            LET r == correlations[k]
                between == EdgesBetween(r.leader, r.follower)
            IN  (HasVertex(graph, r.leader) /\ HasVertex(graph, r.follower)) =>
                   /\ Len(between) = 1
                   /\ between[1].correlation = r.correlation
                   /\ between[1].lag = r.lag_minutes
                   /\ between[1].updated_at = cycle

\* C1 witness: the second run has written A -> B with lag -2 and a negative
\* correlation, and the stored history shows that the first run left A -> B
\* with lag 1 and a positive one.
C1_Witness ==
    /\ cycle = 2
    /\ pc = "updated"
    /\ rel_index > Len(correlations)
    /\ Len(EdgesBetween("A", "B")) = 1
    /\ EdgesBetween("A", "B")[1].lag = 0 - 2
    /\ FloatLess(EdgesBetween("A", "B")[1].correlation, Zero)
    /\ EdgesBetween("A", "B")[1].updated_at = 2
    /\ \E k \in 1..Len(leaders_csv.rows) :
         /\ leaders_csv.rows[k].timestamp = 1
         /\ leaders_csv.rows[k].leader = "A"
         /\ Len(leaders_csv.rows[k].followers) = 1
         /\ leaders_csv.rows[k].followers[1].symbol = "B"
         /\ leaders_csv.rows[k].followers[1].lag = 1
         /\ FloatLess(Zero, leaders_csv.rows[k].followers[1].corr)

\*--------------------------------------------------------------------------
\* Properties of the end-to-end scenario (SpecScenario)
\*--------------------------------------------------------------------------

\* C9 as stated: on the scenario table, where A leads B by 5 rows at
\* correlation 0.9 and C by 5 rows at correlation 0.85, calculate_correlations
\* returns exactly the two candidates A -> B and A -> C, and after a graph
\* update that completed the snapshot row of A has follower_count 2 and
\* leader_quality WEAK.
C9_ScenarioTwoCandidates ==
    /\ (df = ScenarioTable /\ pc \notin {"start", "table"}) =>
          /\ Len(correlations) = 2
          /\ { <<correlations[k].leader, correlations[k].follower>> :
                  k \in 1..Len(correlations) } = {<<"A", "B">>, <<"A", "C">>}
    /\ (df = ScenarioTable /\ pc = "built" /\ rel_index > Len(correlations)
          /\ Len(metadata) = 3) =>
          \E k \in 1..Len(leaders_df) :
             /\ leaders_df[k].leader = "A"
             /\ leaders_df[k].follower_count = 2
             /\ leaders_df[k].leader_quality = "WEAK"

\*--------------------------------------------------------------------------
\* Properties of the history store (SpecCsv)
\*--------------------------------------------------------------------------

\* C10 as stated: the stored history never has more than 5000 rows, and every
\* call of update_csv_in_s3 that returns, the stored history holding the rows
\* E when it writes and the new rows being N, leaves the last
\* min(|E| + |N|, 5000) rows of E followed by N; and 20 new rows on 4990
\* stored leave 5000 rows, the 20 oldest removed.
C10_Retention ==
    /\ [](Len(leaders_csv.rows) <= HISTORY_CAP)
    /\ [][(pc = "history" /\ pc' = "done" /\ response' = 200)
          => LET all  == leaders_csv.rows \o leaders_df
                 keep == Min(Len(all), HISTORY_CAP)
             IN  /\ leaders_csv'.exists
                 /\ leaders_csv'.rows = SubSeq(all, Len(all) - keep + 1, Len(all))
                 /\ (Len(leaders_csv.rows) = HISTORY_CAP - 10 /\ Len(leaders_df) = 20) =>
                       /\ Len(leaders_csv'.rows) = HISTORY_CAP
                       /\ leaders_csv'.rows[1] = leaders_csv.rows[21]]_vars

\* C11 as stated: when the read of an existing stored history fails,
\* update_csv_in_s3 leaves the stored history as it was and the handler does
\* not answer 200.
C11_HistoryFailureReported ==
    [][(pc = "history" /\ s3_read = "error" /\ leaders_csv.exists /\ pc' = "done")
          => (leaders_csv' = leaders_csv /\ response' # 200)]_vars

\*--------------------------------------------------------------------------
\* Specification of update_neptune in runs of app.handler that may overlap
\* Each run has its own relationships, metadata and loop positions; the
\* graph is shared and each Gremlin query acts on it at once. When
\* `exclusive` holds the invoker starts a run only while no other is writing.
\*--------------------------------------------------------------------------

Writers == 1..MaxWriters

Writing(w) == writers[w].pc \in {"vertices", "drop", "add"}

InitWriters ==
    /\ pc = "writers"
    /\ writers = [w \in Writers |->
                    [pc |-> "idle", relationships |-> <<>>, metadata |-> <<>>,
                     unique_coins |-> {}, rel_index |-> 0]]
    /\ exclusive \in BOOLEAN
    /\ CorrIdle
    /\ SnapshotIdle
    /\ SignalsIdle
    /\ PipelineIdle
    /\ AnyBuild

\* app.py 309-317, 132-136: run w has its table and metadata, has computed
\* its relationships and enters the vertex loop of update_neptune.
WriterConnects(w) ==
    /\ writers[w].pc = "idle"
    /\ exclusive => \A v \in Writers : ~Writing(v)
    /\ \E t \in {RisingTable, FallingTable} :
         writers' = [writers EXCEPT ![w] =
                       [pc            |-> "vertices",
                        relationships |-> calculate_correlations(t, fused_dot),
                        metadata      |-> Metrics(t.columns, t, UnitVolumes(t)),
                        unique_coins  |-> { t.columns[k] : k \in 1..Len(t.columns) },
                        rel_index     |-> 1]]
    /\ UNCHANGED <<pc, df, correlations, best, results, leaders_df, df_history, signals_df,
                   signals_csv, response, pipelineVars, exclusive, overlapVars, fused_dot>>

\* app.py 138-155 in run w
WriterUpsertsCoin(w) ==
    /\ writers[w].pc = "vertices"
    /\ \E coin \in writers[w].unique_coins :
         LET k    == CHOOSE k \in 1..Len(writers[w].metadata) : writers[w].metadata[k].coin = coin
             rest == writers[w].unique_coins \ {coin}
         IN  /\ graph' = UpsertVertex(graph, coin, writers[w].metadata[k], w)
             /\ writers' = [writers EXCEPT ![w].unique_coins = rest,
                                           ![w].pc = IF rest = {} THEN "drop" ELSE "vertices"]
    /\ UNCHANGED <<pc, df, correlations, best, results, leaders_df, df_history, signals_df,
                   signals_csv, response, metadata, unique_coins, rel_index, leaders_csv,
                   s3_read, cycle, exclusive, overlapVars, fused_dot>>

\* app.py 160-164 in run w
WriterDropsOldEdge(w) ==
    /\ writers[w].pc = "drop"
    /\ graph' = DropEdges(graph, writers[w].relationships[writers[w].rel_index].leader,
                          writers[w].relationships[writers[w].rel_index].follower)
    /\ writers' = [writers EXCEPT ![w].pc = "add"]
    /\ UNCHANGED <<pc, df, correlations, best, results, leaders_df, df_history, signals_df,
                   signals_csv, response, metadata, unique_coins, rel_index, leaders_csv,
                   s3_read, cycle, exclusive, overlapVars, fused_dot>>

\* app.py 167-175 in run w
WriterAddsNewEdge(w) ==
    /\ writers[w].pc = "add"
    /\ graph' = AddEdge(graph, writers[w].relationships[writers[w].rel_index], w)
    /\ writers' = [writers EXCEPT
                     ![w].rel_index = @ + 1,
                     ![w].pc = IF writers[w].rel_index + 1 > Len(writers[w].relationships)
                               THEN "closed" ELSE "drop"]
    /\ UNCHANGED <<pc, df, correlations, best, results, leaders_df, df_history, signals_df,
                   signals_csv, response, metadata, unique_coins, rel_index, leaders_csv,
                   s3_read, cycle, exclusive, overlapVars, fused_dot>>

\* app.py 177-180 in run w: a query raises and update_neptune returns.
WriterFails(w) ==
    /\ Writing(w)
    /\ writers' = [writers EXCEPT ![w].pc = "closed"]
    /\ UNCHANGED <<pc, df, correlations, best, results, leaders_df, df_history, signals_df,
                   signals_csv, response, pipelineVars, exclusive, overlapVars, fused_dot>>

NextWriters ==
    \E w \in Writers :
       \/ WriterConnects(w)
       \/ WriterUpsertsCoin(w)
       \/ WriterDropsOldEdge(w)
       \/ WriterAddsNewEdge(w)
       \/ WriterFails(w)

SpecWriters == InitWriters /\ [][NextWriters]_vars

\*--------------------------------------------------------------------------
\* Properties of overlapping runs (SpecWriters)
\*--------------------------------------------------------------------------

\* C12: when the runs are kept from overlapping no ordered pair ever has two
\* 'leads' edges; when they may overlap a pair can have parallel edges, never
\* more than there are runs.
C12_ParallelEdgesNeedOverlap ==
    \A k \in 1..Len(graph.edges) :
       LET n == Len(EdgesBetween(graph.edges[k].from, graph.edges[k].to))
       IN  /\ exclusive => n = 1
           /\ n <= MaxWriters

\* C12 witness: two overlapping runs have both completed update_neptune and
\* the pair A -> B has two parallel edges, one of each run.
C12_Witness ==
    /\ ~exclusive
    /\ \A w \in Writers :
         writers[w].pc = "closed" /\ writers[w].rel_index > Len(writers[w].relationships)
    /\ Len(EdgesBetween("A", "B")) = 2
    /\ EdgesBetween("A", "B")[1].updated_at # EdgesBetween("A", "B")[2].updated_at

\*--------------------------------------------------------------------------
\* Properties of the pipeline under store failures (Spec)
\*--------------------------------------------------------------------------

\* C13 as stated: in a run that computed relationship candidates and could
\* reach the graph store neither in update_neptune nor in
\* get_leaders_analytics, the handler does not raise, answers 200, and the
\* stored history has rows of this run.
C13_GraphUnavailableRecoverable ==
    [][(pc = "failed" /\ correlations # <<>> /\ rel_index = 0 /\ pc' = "done")
          => /\ response' = 200
             /\ leaders_csv'.exists
             /\ \E k \in 1..Len(leaders_csv'.rows) : leaders_csv'.rows[k].timestamp = cycle]_vars

\*--------------------------------------------------------------------------
\* Properties of the handlers on zero input (SpecSignals, Spec)
\*--------------------------------------------------------------------------

\* C14 as stated: a handler whose input is empty, the price table of
\* app.handler or the leaders history of signals.handler, writes nothing to
\* the graph or to a history store and returns a result that is not an error.
C14_ZeroInputIsNoOp ==
    [][/\ (pc = "table" /\ df.columns = <<>> /\ pc' = "done") =>
             /\ graph' = graph
             /\ leaders_csv' = leaders_csv
             /\ response' \in 200..399
       /\ (pc = "loaded" /\ df_history = <<>> /\ pc' = "done") =>
             /\ signals_csv' = signals_csv
             /\ response' \in 200..399]_vars

\*--------------------------------------------------------------------------
\* Specification of get_leaders_analytics on drawn graphs (SpecGraph)
\* A drawn graph has one vertex for each of its symbols and up to MaxEdges
\* 'leads' edges between distinct vertices, parallel edges included.
\*--------------------------------------------------------------------------

\* The vertices of a drawn graph, in creation order.
GraphVertices == {<<>>, <<"A">>, <<"A", "B">>, <<"B", "A", "C">>, <<"A", "B", "C">>}

\* The (correlation, lag) values an edge of a drawn graph carries: +0.8 at
\* lag 1 or -0.9 at lag -2.
EdgeValues == {[correlation |-> DoubleOf(4, 5), lag |-> 1],
               [correlation |-> DoubleOf(0 - 9, 10), lag |-> 0 - 2]}

\* The edges that can be drawn between the vertices `symbols`.
EdgeKinds(symbols) ==
    { [from |-> symbols[i], to |-> symbols[j], correlation |-> v.correlation,
       lag |-> v.lag, updated_at |-> 0] :
        i \in 1..Len(symbols), j \in 1..Len(symbols), v \in EdgeValues } \
    { e \in [from : {"A", "B", "C"}, to : {"A", "B", "C"},
             correlation : { v.correlation : v \in EdgeValues },
             lag : { v.lag : v \in EdgeValues }, updated_at : {0}] : e.from = e.to }

InitGraph ==
    /\ pc = "updated"
    /\ \E symbols \in GraphVertices :
         \E n \in 0..MaxEdges :
           \E edges \in [1..n -> EdgeKinds(symbols)] :
             graph = [vertices |-> [k \in 1..Len(symbols) |->
                                      [symbol |-> symbols[k], volatility |-> {Zero},
                                       volume_ratio |-> {Zero}, last_seen |-> {0}]],
                      edges    |-> edges]
    /\ cycle = 1
    /\ metadata = <<>>
    /\ unique_coins = {}
    /\ rel_index = 0
    /\ leaders_csv = NoObject
    /\ s3_read = "none"
    /\ CorrIdle
    /\ SnapshotIdle
    /\ SignalsIdle
    /\ WritersIdle
    /\ NoDot

NextGraph == GetLeadersAnalytics \/ AnalyticsFails

SpecGraph == InitGraph /\ [][NextGraph]_vars

\* The snapshot rows of an asset.
RowsOf(symbol) == LET Leader(row) == row.leader = symbol IN SelectSeq(leaders_df, Leader)

\* The position in `out` of the last edge to `symbol`.
LastEdgeTo(out, symbol) ==
    CHOOSE k \in 1..Len(out) :
        /\ out[k].to = symbol
        /\ \A j \in (k + 1)..Len(out) : out[j].to # symbol

\* C15: after get_leaders_analytics has answered on any graph, every asset
\* with at least one outgoing edge has exactly one snapshot row and every other
\* asset none; the followers of a row have distinct symbols, which are the
\* targets of the asset's outgoing edges, follower_count is the number of
\* those symbols, and each follower carries the correlation and lag of the
\* last outgoing edge to it.
C15_SnapshotDerivation ==
    pc = "built" =>
      /\ \A k \in 1..Len(leaders_df) : HasVertex(graph, leaders_df[k].leader)
      /\ \A v \in 1..Len(graph.vertices) :
           LET symbol == graph.vertices[v].symbol
               out    == OutEdges(graph, symbol)
               rows   == RowsOf(symbol)
           IN  IF out = <<>> THEN rows = <<>>
               ELSE /\ Len(rows) = 1
                    /\ LET followers == rows[1].followers
                           targets   == { out[k].to : k \in 1..Len(out) }
                       IN  /\ \A i, j \in 1..Len(followers) :
                                 followers[i].symbol = followers[j].symbol => i = j
                           /\ { followers[k].symbol : k \in 1..Len(followers) } = targets
                           /\ rows[1].follower_count = Cardinality(targets)
                           /\ \A k \in 1..Len(followers) :
                                 LET e == out[LastEdgeTo(out, followers[k].symbol)]
                                 IN  /\ followers[k].corr = e.correlation
                                     /\ followers[k].lag = e.lag

\* The snapshot of a graph in which A has two edges to B with different
\* values, the later one after an edge to C.
C15_Witness ==
    /\ pc = "built"
    /\ Len(graph.edges) = 3
    /\ graph.edges[1].from = "A" /\ graph.edges[1].to = "B"
    /\ graph.edges[2].from = "A" /\ graph.edges[2].to = "C"
    /\ graph.edges[3].from = "A" /\ graph.edges[3].to = "B"
    /\ graph.edges[1].lag # graph.edges[3].lag
    /\ Len(leaders_df) = 1
    /\ leaders_df[1].follower_count = 2
    /\ leaders_df[1].influence_score = 3
    /\ leaders_df[1].followers[1].symbol = "B"
    /\ leaders_df[1].followers[1].lag = graph.edges[3].lag

\*--------------------------------------------------------------------------
\* Properties of the vertices (Spec)
\*--------------------------------------------------------------------------

\* C16 as stated: after an update_neptune call that completed without a store
\* error, every relationship passed to it has its leader and its follower as
\* vertices of the graph and an edge between them, also when one of the two
\* has no metadata entry in the cycle.
C16_RelationshipsStored ==
    (pc = "updated" /\ correlations # <<>> /\ rel_index > Len(correlations)) =>
      \A k \in 1..Len(correlations) :
         /\ HasVertex(graph, correlations[k].leader)
         /\ HasVertex(graph, correlations[k].follower)
         /\ EdgesBetween(correlations[k].leader, correlations[k].follower) # <<>>

\*--------------------------------------------------------------------------
\* Properties of the best-value tracking (SpecCorr)
\*--------------------------------------------------------------------------

\* C17 as stated: for a pair whose correlation is defined at some lag of the
\* window, each search returns the smallest of the lags that attain the
\* largest magnitude, with the correlation the table gives at that lag, which
\* is never NaN.
C17_SmallestMaximalLag ==
    /\ pc = "correlated" =>
         \A pr \in DOMAIN best.app :
            LET c      == AppCorrs(pr)
                argmax == ArgMaxIn(c, MAX_LAG, Window)
            IN  DefinedIn(c, MAX_LAG, Window) # {} =>
                  /\ best.app[pr].lag \in argmax
                  /\ \A l \in argmax : best.app[pr].lag <= l
                  /\ best.app[pr].corr = At(c, MAX_LAG, best.app[pr].lag)
    /\ pc = "lagged" =>
         \A pr \in DOMAIN best.minutes :
            LET c      == MinutesCorrs(pr)
                argmax == ArgMaxIn(c, DEFAULT_MAX_LAG, MinutesWindow)
            IN  DefinedIn(c, DEFAULT_MAX_LAG, MinutesWindow) # {} =>
                  /\ best.minutes[pr].lag \in argmax
                  /\ \A l \in argmax : best.minutes[pr].lag <= l
                  /\ best.minutes[pr].corr = At(c, DEFAULT_MAX_LAG, best.minutes[pr].lag)

\*--------------------------------------------------------------------------
\* Specification of app.handler run after run on tables of up to four columns
\* (SpecMirror): StarTable, TailTable or no table at all. The runs write the
\* graph one after the other; a second run of the handler may overlap any of
\* them in update_csv_in_s3.
\*--------------------------------------------------------------------------

\* What get_binance_data returns for the candles of each table of SpecMirror,
\* every candle of volume 1: the table and the metrics of each of its coins,
\* the same in every run and computed once.
MirrorFetches ==
    { [df |-> t, metadata |-> Metrics(t.columns, t, UnitVolumes(t))] : t \in MirrorTables }

\* app.py 309, 18-81: a run starts and get_binance_data returns a table of
\* up to four coins and the metadata of each, or the empty table when no
\* market could be loaded.
GetFourCoins ==
    /\ pc \in {"start", "done"}
    /\ cycle < MaxCycles
    /\ cycle' = cycle + 1
    /\ \/ df' = NoTable /\ metadata' = <<>>
       \/ \E fetch \in MirrorFetches :
            /\ df' = fetch.df
            /\ metadata' = fetch.metadata
    /\ pc' = "table"
    /\ s3_read' = "none"
    /\ response' = 0
    /\ UNCHANGED <<correlations, best, results, leaders_df, unique_coins, rel_index, graph,
                   leaders_csv, df_history, signals_df, signals_csv,
                   writerVars, overlapVars, fused_dot>>

NextMirror ==
    \/ GetFourCoins
    \/ EmptyTable
    \/ CalculateCorrelations
    \/ ConnectNeptune
    \/ UpsertCoin
    \/ DropOldEdge
    \/ AddNewEdge
    \/ NeptuneFails
    \/ GetLeadersAnalytics
    \/ AnalyticsFails
    \/ UpdateCsvEmpty
    \/ GetLeadersCsv
    \/ PutLeadersCsv
    \/ UpdateCsvPutFails
    \/ OtherCsvGets
    \/ OtherCsvPuts

SpecMirror == Init /\ [][NextMirror]_vars

\* The candidate (follower leads leader) is among the candidates of the run.
HasMirrorCandidate(rel) ==
    \E j \in 1..Len(correlations) :
        correlations[j].leader = rel.follower /\ correlations[j].follower = rel.leader

\* update_neptune has run every query of the current run without an error.
UpdateCompleted ==
    pc \in {"updated", "built"} /\ correlations # <<>> /\ rel_index > Len(correlations)

\* Every asset with an outgoing edge has an incoming one, and no snapshot row
\* is ALPHA.
NoPureLeader ==
    /\ \A k \in 1..Len(graph.edges) : InEdges(graph, graph.edges[k].from) # <<>>
    /\ pc = "built" =>
         \A k \in 1..Len(leaders_df) :
            /\ leaders_df[k].independence_score >= 1
            /\ leaders_df[k].leader_quality # "ALPHA"

\* C18 as stated: a candidate is emitted exactly when its mirror is, and after
\* an update that completed without a store error every asset with an outgoing
\* edge has an incoming one and no snapshot row is ALPHA.
C18_MirrorEmissionNoAlpha ==
    /\ \A k \in 1..Len(correlations) : HasMirrorCandidate(correlations[k])
    /\ UpdateCompleted => NoPureLeader

\*--------------------------------------------------------------------------
\* Properties of the snapshot after runs made one at a time (SpecMirror)
\*--------------------------------------------------------------------------

\* C19: in every snapshot row built after any sequence of runs made one at a
\* time, follower_count and influence_score are equal, both being the number
\* of edges that leave the leader.
C19_FollowerCountIsInfluence ==
    pc = "built" =>
      \A k \in 1..Len(leaders_df) :
         /\ leaders_df[k].follower_count = leaders_df[k].influence_score
         /\ leaders_df[k].influence_score = Len(OutEdges(graph, leaders_df[k].leader))

\* C19 witness: the snapshot of a second run that wrote again the three edges
\* which the first run had written from A.
C19_Witness ==
    /\ pc = "built"
    /\ cycle = 2
    /\ UpdateCompleted
    /\ \E k \in 1..Len(leaders_df) :
         /\ leaders_df[k].leader = "A"
         /\ leaders_df[k].follower_count = 3
         /\ leaders_df[k].influence_score = 3
    /\ \E k \in 1..Len(leaders_csv.rows) :
         /\ leaders_csv.rows[k].leader = "A"
         /\ leaders_csv.rows[k].timestamp = 1
         /\ leaders_csv.rows[k].follower_count = 3
    /\ \A k \in 1..Len(correlations) : correlations[k].leader = "A" \/ correlations[k].follower = "A"

=============================================================================
